---- MODULE Spec2Model ----
(***************************************************************************)
(* One-way reconciliation of a Grocy shopping list (the source) into an    *)
(* OurGroceries list (the mirror): the item matcher, the quantity          *)
(* formatter, the tracking ledger, the deletion manager and the sync       *)
(* manager's pass, modelled from the Python sources.                       *)
(*                                                                         *)
(* Text is a sequence of one-character strings, so that lower(), strip(),  *)
(* split() and the substring test are computed as the code computes them.  *)
(* Python's None is the one-element sequence None, '' is << >>.            *)
(***************************************************************************)
EXTENDS Integers, Sequences, FiniteSets, TLC

(***************************************************************************)
(* Bounds of the model                                                     *)
(***************************************************************************)
\* passes (sync_list calls) in one behaviour
MaxPasses == 2

\* remote calls that fail, or answer without the new item's id, in one behaviour
MaxFaults == 1

\* items of the Grocy shopping list
MaxSrc == 2

\* items of the OurGroceries list before the first pass
MaxMirror == 2

(***************************************************************************)
(* Text helpers (Python str methods used by the code)                      *)
(***************************************************************************)
None == <<"<None>">>

Missing == <<"<Missing>">>

UpperChars == <<"A","B","C","D","E","F","G","H","I","J","K","L","M","N","O","P","Q","R","S","T","U","V","W","X","Y","Z">>

LowerChars == <<"a","b","c","d","e","f","g","h","i","j","k","l","m","n","o","p","q","r","s","t","u","v","w","x","y","z">>

LowerChar(c) ==
  IF \E i \in 1..Len(UpperChars) : UpperChars[i] = c
  THEN LowerChars[CHOOSE i \in 1..Len(UpperChars) : UpperChars[i] = c]
  ELSE c

\* str.lower()
Lower(s) == [i \in 1..Len(s) |-> LowerChar(s[i])]

\* the characters str.strip() removes
IsSpace(c) == c \in {" ", "\t"}

\* str.strip()
Strip(s) ==
  LET keep == {i \in 1..Len(s) : ~IsSpace(s[i])}
      lo == CHOOSE i \in keep : \A j \in keep : i <= j
      hi == CHOOSE i \in keep : \A j \in keep : i >= j
  IN IF keep = {} THEN << >> ELSE SubSeq(s, lo, hi)

\* sub occurs in s at index i
StartsAt(s, sub, i) ==
  /\ i >= 1
  /\ i + Len(sub) - 1 <= Len(s)
  /\ SubSeq(s, i, i + Len(sub) - 1) = sub

\* str.find(sub) + 1: the index of the first occurrence, 0 when there is none
Find(s, sub) ==
  LET at == {i \in 1..(Len(s) + 1) : StartsAt(s, sub, i)}
  IN IF at = {} THEN 0 ELSE CHOOSE i \in at : \A j \in at : i <= j

\* sub in s
Contains(s, sub) == Find(s, sub) # 0

\* s.split(sub)[0], for a sub that occurs in s
BeforeFirst(s, sub) == SubSeq(s, 1, Find(s, sub) - 1)

\* s.split(sub, 1)[1], for a sub that occurs in s
AfterFirst(s, sub) == SubSeq(s, Find(s, sub) + Len(sub), Len(s))

\* s.replace(' ', '')
RemoveSpaces(s) == SelectSeq(s, LAMBDA c : c # " ")

\* s.endswith(sub)
EndsWith(s, sub) == Len(sub) <= Len(s) /\ SubSeq(s, Len(s) - Len(sub) + 1, Len(s)) = sub

\* Python truthiness of an optional string: None and '' are false
Truthy(s) == s # None /\ s # Missing /\ s # << >>

(***************************************************************************)
(* Configuration (config_manager.py)                                       *)
(***************************************************************************)
\* the sync section of the configuration file: the deletion flags, and
\* quantity_separator when one is configured
VARIABLE config

\* sync.quantity_separator, default ' : '
quantity_separator ==
  IF "quantity_separator" \in DOMAIN config THEN config.quantity_separator
  ELSE <<" ", ":", " ">>

\* sync.name_mappings: Grocy product name -> OurGroceries item name
name_mappings == { << <<"E","g","g","s">>, <<"E","g","g">> >> }

(***************************************************************************)
(* ItemMatcher (sync/item_matcher.py)                                      *)
(***************************************************************************)
map_item_name(grocy_name) ==
  IF \E m \in name_mappings : m[1] = grocy_name
  THEN (CHOOSE m \in name_mappings : m[1] = grocy_name)[2]
  ELSE grocy_name

extract_base_name(item_value) ==
  LET item_lower == Lower(item_value)
  IN IF Contains(item_lower, quantity_separator)
     THEN Strip(BeforeFirst(item_lower, quantity_separator))
     ELSE IF Contains(item_lower, <<"(">>)
          THEN Strip(BeforeFirst(item_lower, <<"(">>))
          ELSE item_lower

\* A mirror item is [id, value, crossedOff]; id = 0 stands for a missing
\* 'id' key and value = Missing for a missing 'value' key.
WellFormed(og_item) == og_item.id # 0 /\ og_item.value # Missing

\* find_matching_item raises AttributeError on None.lower()
find_matching_item_raises(grocy_name) == map_item_name(grocy_name) = None

\* find_matching_item going through the whole snapshot and keeping the last
\* match
find_matching_item_keeping_last(grocy_name, og_items) ==
  LET og_item_name_lower == Lower(map_item_name(grocy_name))
      hits == {i \in 1..Len(og_items) :
                 /\ WellFormed(og_items[i])
                 /\ og_item_name_lower = extract_base_name(og_items[i].value)}
  IN IF hits = {} THEN 0 ELSE CHOOSE i \in hits : \A j \in hits : i >= j

\* the index in og_items of the item find_matching_item returns, 0 for None
find_matching_item(grocy_name, og_items) ==
  LET og_item_name_lower == Lower(map_item_name(grocy_name))
      hits == {i \in 1..Len(og_items) :
                 /\ WellFormed(og_items[i])
                 /\ og_item_name_lower = extract_base_name(og_items[i].value)}
  IN IF hits = {} THEN 0 ELSE CHOOSE i \in hits : \A j \in hits : i <= j

\* the text in the last pair of parentheses of the value instead of the
\* first: a counter suffix is taken for the quantity
LegacyQuantityOfLastGroup(v) ==
  LET NoParen(a, b) == \A k \in a..b : v[k] \notin {"(", ")"}
      Closes(i, j) == v[j] = ")" /\ NoParen(i + 1, j - 1)
      opens == {i \in 1..Len(v) :
                  v[i] = "(" /\ \E j \in (i + 2)..Len(v) : Closes(i, j)}
      i0 == CHOOSE i \in opens : \A k \in opens : i >= k
      j0 == CHOOSE j \in (i0 + 2)..Len(v) : Closes(i0, j)
  IN IF opens = {} THEN None ELSE SubSeq(v, i0 + 1, j0 - 1)

\* re.search(r'\(([^()]+)\)(?:\s*\(\d+\))?', value): group 1 of the leftmost
\* match, None when nothing matches
LegacyQuantity(v) ==
  LET NoParen(a, b) == \A k \in a..b : v[k] \notin {"(", ")"}
      Closes(i, j) == v[j] = ")" /\ NoParen(i + 1, j - 1)
      opens == {i \in 1..Len(v) :
                  v[i] = "(" /\ \E j \in (i + 2)..Len(v) : Closes(i, j)}
      i0 == CHOOSE i \in opens : \A k \in opens : i <= k
      j0 == CHOOSE j \in (i0 + 2)..Len(v) : Closes(i0, j)
  IN IF opens = {} THEN None ELSE SubSeq(v, i0 + 1, j0 - 1)

extract_existing_quantity(item) ==
  IF item.value = Missing
  THEN None
  ELSE IF Contains(item.value, quantity_separator)
       THEN AfterFirst(item.value, quantity_separator)
       ELSE LegacyQuantity(item.value)

\* has_quantity_changed without the normalisation of lines 135-138
has_quantity_changed_exactly(existing_quantity, new_quantity) ==
  existing_quantity # new_quantity

has_quantity_changed(existing_quantity, new_quantity) ==
  IF existing_quantity # new_quantity
  THEN LET normalized_existing ==
             IF Truthy(existing_quantity)
             THEN RemoveSpaces(Lower(existing_quantity)) ELSE << >>
           normalized_new ==
             IF Truthy(new_quantity)
             THEN RemoveSpaces(Lower(new_quantity)) ELSE << >>
       IN normalized_existing # normalized_new
  ELSE FALSE

(***************************************************************************)
(* QuantityFormatter (sync/quantity_formatter.py)                          *)
(*                                                                         *)
(* A number is [k, h, s]: k = "int" or "float" with the value h in         *)
(* hundredths, k = "str" for a non-numeric amount with text s, and         *)
(* k = "missing" for an absent 'amount' key.  A conversion factor is       *)
(* [k, n, d]: k = "num" for the number n/d, "bad" for text float() rejects,*)
(* "none" for null and "missing" for an absent 'factor' key.               *)
(***************************************************************************)
DigitChars == <<"0","1","2","3","4","5","6","7","8","9">>

RECURSIVE NatStr(_)
\* str(n) for an int n >= 0
NatStr(n) ==
  IF n < 10 THEN <<DigitChars[n + 1]>>
  ELSE NatStr(n \div 10) \o <<DigitChars[(n % 10) + 1]>>

\* str(x) for the float x = h / 100 (two decimals at most)
FloatStr(h) ==
  LET frac == h % 100
  IN NatStr(h \div 100) \o <<".">> \o
     (IF frac % 10 = 0 THEN <<DigitChars[(frac \div 10) + 1]>>
      ELSE <<DigitChars[(frac \div 10) + 1], DigitChars[(frac % 10) + 1]>>)

\* str(quantity)
QtyStr(q) ==
  CASE q.k = "int" -> NatStr(q.h \div 100)
    [] q.k = "float" -> FloatStr(q.h)
    [] q.k = "str" -> q.s
    [] OTHER -> << >>

\* float(quantity) raises ValueError for text that is no number
IsNumber(q) == q.k \in {"int", "float"}

\* round(a / b) to the nearest integer, ties to even (Python's round)
RoundHalfEven(a, b) ==
  LET q == a \div b
      r == a % b
  IN IF 2 * r < b THEN q
     ELSE IF 2 * r > b THEN q + 1
     ELSE IF q % 2 = 0 THEN q ELSE q + 1

\* round(q * n/d, 2), then the collapse to an int within 0.05 of one
ConvertAmount(q, n, d) ==
  LET purchase_h == RoundHalfEven(q.h * n, d)
      whole == RoundHalfEven(purchase_h, 100)
      dist == IF purchase_h >= 100 * whole
              THEN purchase_h - 100 * whole ELSE 100 * whole - purchase_h
  IN IF dist < 5
     THEN [k |-> "int", h |-> 100 * whole, s |-> << >>]
     ELSE [k |-> "float", h |-> purchase_h, s |-> << >>]

\* float(conversion.get('factor', 1)) raises ValueError or TypeError
FactorRaises(f) == f.k \in {"bad", "none"}

FactorNum(f) == IF f.k = "missing" THEN 1 ELSE f.n

FactorDen(f) == IF f.k = "missing" THEN 1 ELSE f.d

\* _find_conversion_factor taking the first entry between the two units in
\* the order of the list, whichever its direction
find_conversion_factor_in_list_order(product, from_qu_id, to_qu_id) ==
  LET convs == product.quantity_unit_conversions
      either == {i \in 1..Len(convs) :
                   \/ convs[i].from_qu_id = from_qu_id /\ convs[i].to_qu_id = to_qu_id
                   \/ convs[i].from_qu_id = to_qu_id /\ convs[i].to_qu_id = from_qu_id}
      first == convs[CHOOSE i \in either : \A j \in either : i <= j]
      none == [exc |-> FALSE, found |-> FALSE, n |-> 0, d |-> 1]
      raise == [exc |-> TRUE, found |-> FALSE, n |-> 0, d |-> 1]
  IN IF either = {} THEN none
     ELSE IF FactorRaises(first.factor) THEN raise
     ELSE IF first.from_qu_id = from_qu_id
     THEN [exc |-> FALSE, found |-> TRUE,
           n |-> FactorNum(first.factor), d |-> FactorDen(first.factor)]
     ELSE IF FactorNum(first.factor) = 0 THEN raise
     ELSE [exc |-> FALSE, found |-> TRUE,
           n |-> FactorDen(first.factor), d |-> FactorNum(first.factor)]

\* [exc, found, n, d]: exc when the lookup raises; found with the factor n/d
\* when it returns one; neither when it returns None
find_conversion_factor(product, from_qu_id, to_qu_id) ==
  LET convs == product.quantity_unit_conversions
      direct == {i \in 1..Len(convs) :
                   convs[i].from_qu_id = from_qu_id /\ convs[i].to_qu_id = to_qu_id}
      inverse == {i \in 1..Len(convs) :
                    convs[i].from_qu_id = to_qu_id /\ convs[i].to_qu_id = from_qu_id}
      di == convs[CHOOSE i \in direct : \A j \in direct : i <= j].factor
      ii == convs[CHOOSE i \in inverse : \A j \in inverse : i <= j].factor
      none == [exc |-> FALSE, found |-> FALSE, n |-> 0, d |-> 1]
      raise == [exc |-> TRUE, found |-> FALSE, n |-> 0, d |-> 1]
  IN IF direct # {}
     THEN IF FactorRaises(di) THEN raise
          ELSE [exc |-> FALSE, found |-> TRUE, n |-> FactorNum(di), d |-> FactorDen(di)]
     ELSE IF inverse # {}
          THEN IF FactorRaises(ii) \/ FactorNum(ii) = 0 THEN raise
               ELSE [exc |-> FALSE, found |-> TRUE, n |-> FactorDen(ii), d |-> FactorNum(ii)]
          ELSE none

\* grocy_client.get_quantity_unit: the unit's record, present = FALSE for {}
quantity_units ==
  [i \in 0..7 |->
     CASE i = 1 -> [present |-> TRUE, id |-> 1,
                    name |-> <<"B","o","t","t","l","e">>,
                    name_plural |-> <<"B","o","t","t","l","e","s">>]
       [] i = 2 -> [present |-> TRUE, id |-> 2,
                    name |-> <<"P","a","c","k">>, name_plural |-> Missing]
       [] i = 3 -> [present |-> TRUE, id |-> 3,
                    name |-> <<"B","o","x">>, name_plural |-> << >>]
       [] i = 4 -> [present |-> TRUE, id |-> 4,
                    name |-> <<"C","a","n">>, name_plural |-> None]
       [] i = 5 -> [present |-> TRUE, id |-> 5, name |-> Missing, name_plural |-> Missing]
       [] i = 6 -> [present |-> TRUE, id |-> 6,
                    name |-> <<"G","l","a","s","s">>, name_plural |-> Missing]
       [] OTHER -> [present |-> FALSE, id |-> i, name |-> Missing, name_plural |-> Missing]]

get_quantity_unit(qu_id) == quantity_units[qu_id]

\* [exc, s]: the unit name, exc when unit.endswith raises on None
get_unit_name(quantity_unit, quantity) ==
  LET fallback == <<"u","n","i","t"," ">> \o NatStr(quantity_unit.id)
      name_get == IF quantity_unit.name = Missing THEN None ELSE quantity_unit.name
      name_or == IF quantity_unit.name = Missing THEN fallback ELSE quantity_unit.name
      plural == IF quantity_unit.name_plural = Missing THEN name_or
                ELSE quantity_unit.name_plural
  IN IF ~IsNumber(quantity) \/ quantity.h = 100
     THEN [exc |-> FALSE, s |-> name_or]
     ELSE IF plural = name_get /\ ~Truthy(quantity_unit.name_plural)
          THEN IF plural = None THEN [exc |-> TRUE, s |-> None]
               ELSE IF EndsWith(plural, <<"s">>) THEN [exc |-> FALSE, s |-> plural]
               ELSE [exc |-> FALSE, s |-> plural \o <<"s">>]
          ELSE [exc |-> FALSE, s |-> plural]

\* format_quantity leaving a line listed in the purchase unit as it is
format_quantity_as_listed(grocy_item) ==
  LET original_quantity == grocy_item.amount
      product == grocy_item.product_details
      purchase == product.qu_id_purchase
      stock == product.qu_id_stock
      case1 == grocy_item.has_product /\ grocy_item.qu_id = purchase /\ purchase # stock
      case2 == grocy_item.has_product /\ ~case1 /\ grocy_item.qu_id # purchase
      factor == IF case1 THEN find_conversion_factor(product, stock, purchase)
                ELSE find_conversion_factor(product, grocy_item.qu_id, purchase)
      converts == case2 /\ factor.found /\ factor.n # 0
                    /\ IsNumber(original_quantity)
      quantity == IF converts THEN ConvertAmount(original_quantity, factor.n, factor.d)
                  ELSE original_quantity
      shopping_list_qu_id == IF case2 /\ converts THEN purchase ELSE grocy_item.qu_id
      quantity_unit == get_quantity_unit(shopping_list_qu_id)
      unit == IF shopping_list_qu_id # 0 /\ quantity_unit.present
              THEN get_unit_name(quantity_unit, quantity)
              ELSE [exc |-> FALSE, s |-> None]
  IN IF ((case1 \/ case2) /\ factor.exc) \/ unit.exc
     THEN [exc |-> TRUE, quantity |-> original_quantity, quantity_str |-> << >>]
     ELSE [exc |-> FALSE, quantity |-> quantity,
           quantity_str |-> IF Truthy(unit.s) THEN QtyStr(quantity) \o <<" ">> \o unit.s
                            ELSE QtyStr(quantity)]

\* [exc, quantity, quantity_str]
format_quantity(grocy_item) ==
  LET original_quantity == grocy_item.amount
      product == grocy_item.product_details
      purchase == product.qu_id_purchase
      stock == product.qu_id_stock
      case1 == grocy_item.has_product /\ grocy_item.qu_id = purchase /\ purchase # stock
      case2 == grocy_item.has_product /\ ~case1 /\ grocy_item.qu_id # purchase
      factor == IF case1 THEN find_conversion_factor(product, stock, purchase)
                ELSE find_conversion_factor(product, grocy_item.qu_id, purchase)
      converts == (case1 \/ case2) /\ factor.found /\ factor.n # 0
                    /\ IsNumber(original_quantity)
      quantity == IF converts THEN ConvertAmount(original_quantity, factor.n, factor.d)
                  ELSE original_quantity
      shopping_list_qu_id == IF case2 /\ converts THEN purchase ELSE grocy_item.qu_id
      quantity_unit == get_quantity_unit(shopping_list_qu_id)
      unit == IF shopping_list_qu_id # 0 /\ quantity_unit.present
              THEN get_unit_name(quantity_unit, quantity)
              ELSE [exc |-> FALSE, s |-> None]
  IN IF ((case1 \/ case2) /\ factor.exc) \/ unit.exc
     THEN [exc |-> TRUE, quantity |-> original_quantity, quantity_str |-> << >>]
     ELSE [exc |-> FALSE, quantity |-> quantity,
           quantity_str |-> IF Truthy(unit.s) THEN QtyStr(quantity) \o <<" ">> \o unit.s
                            ELSE QtyStr(quantity)]

(***************************************************************************)
(* State                                                                   *)
(***************************************************************************)
VARIABLES
  source,          \* the items of the Grocy shopping list (the source service)
  mirror,          \* the items of the OurGroceries list (the mirror service)
  next_id,         \* the id the mirror service gives the next added item
  tracking,        \* SyncTracker.tracking_data["lists"]: list id -> item ids
  last_added,      \* OurGroceriesClient._cache['last_added_item'] id, 0 for None
  pc,              \* where sync_list / process_deletions stands
  grocy_items,     \* sync_list's grocy_items
  og_items,        \* sync_list's og_items, the mirror snapshot of the pass
  idx,             \* index in grocy_items of the item the for loop is at
  items_to_remove, \* process_deletions' items_to_remove
  ridx,            \* index in items_to_remove of the removal loop
  result,          \* what the last sync_list call returned (SpecMatcher,
                   \* SpecFormat, SpecLoad: what the function applied returned)
  passes,          \* sync_list calls finished so far
  calls,           \* the mirror add/remove calls of the current pass, in order
                   \* (SpecTracker: the latest call of the tracker)
  ledger0,         \* tracking when the current pass began (SpecLoad: the
                   \* content of the tracking file the tracker was opened over)
  pass_ok,         \* every remote call of the current pass succeeded so far
  prev_ok,         \* the pass before the current one returned True, all calls succeeding
  changed,         \* the source or the mirror was edited from outside since the last pass
  faults_left,     \* remote calls that may still fail in this behaviour
  list_mappings,   \* sync.list_mappings of the configuration file, in order
  all_success,     \* sync_all_lists' success
  written,         \* <<list id, item id>> of every mirror entry the engine added
  connected,       \* what test_connections returned to sync_all_lists
  returned,        \* the sync_list calls sync_all_lists has made: list pair and result
  tracking_file,   \* the "lists" of the tracking file on disk
  saves,           \* the calls of SyncTracker._save_tracking_data so far
  client,          \* the two clients' own state: their caches with the
                   \* timestamps, the clock, the authentication, and the
                   \* categories and products of the services they cache
                   \* (NoClient where the clients are not looked into)
  vanished         \* the Grocy items whose update removed the old entry and
                   \* then failed to add the replacement, with the pass

vars == <<config, source, mirror, next_id, tracking, last_added, pc, grocy_items,
          og_items, idx, items_to_remove, ridx, result, passes, calls, ledger0,
          pass_ok, prev_ok, changed, faults_left, list_mappings, all_success, written,
          connected, returned, tracking_file, saves, client, vanished>>

\* the client's state where a specification does not look into it
NoClient == [cache |-> << >>]

\* the list pair the loop of sync_all_lists is at: the pairs are gone through
\* in order, one sync_list call each, call after call
list_mapping == list_mappings[(passes % Len(list_mappings)) + 1]

\* the Grocy shopping list of the pair
grocy_list_id == list_mapping.grocy_list_id

\* the OurGroceries list of the pair (a list's name stands for its id)
og_list_id == list_mapping.ourgroceries_list_name

ListNames == <<"L1", "L2", "L3">>

ListIds == {ListNames[i] : i \in 1..Len(ListNames)}

(***************************************************************************)
(* DeletionManager.__init__ (sync/deletion_manager.py): each flag of the   *)
(* deletion configuration is "true", "false" or "absent".                  *)
(***************************************************************************)
ConfigGet(flag, default) == IF flag = "absent" THEN default ELSE flag = "true"

enabled == ConfigGet(config.enabled, FALSE)

\* dry_run with the default of enabled: config.get('dry_run', False)
dry_run_default_off == ConfigGet(config.dry_run, FALSE)

dry_run == ConfigGet(config.dry_run, TRUE)

respect_crossed_off == ConfigGet(config.respect_crossed_off, TRUE)

\* preserve_manual_items with the default of enabled
preserve_manual_default_off == ConfigGet(config.preserve_manual_items, FALSE)

preserve_manual_items == ConfigGet(config.preserve_manual_items, TRUE)

(***************************************************************************)
(* SyncTracker (utils/tracking.py)                                         *)
(***************************************************************************)
is_tracked_item(t, list_id, item_id) == item_id \in t[list_id]

track_item(t, list_id, item_id) ==
  IF item_id \notin t[list_id]
  THEN [t EXCEPT ![list_id] = @ \cup {item_id}]
  ELSE t

remove_tracking(t, list_id, item_id) ==
  IF item_id \in t[list_id]
  THEN [t EXCEPT ![list_id] = @ \ {item_id}]
  ELSE t

\* what the tracking file may hold instead of a ledger: no file at all; a
\* file that cannot be opened or read; text that is no JSON; JSON without
\* the key "lists" (as {} is)
NoFile == <<"<NoFile>">>

Unreadable == <<"<Unreadable>">>

NotJson == <<"<NotJson>">>

NoLists == <<"<NoLists>">>

\* _load_tracking_data: {"lists": {}} when there is no file or when open or
\* json.load raises; otherwise what json.load returned, as it is
_load_tracking_data(file) ==
  IF file \in {NoFile, Unreadable, NotJson} THEN [l \in ListIds |-> {}]
  ELSE file

\* track_item saving whether or not the id is new
track_item_saves_always(t, list_id, item_id) == TRUE

\* line 62: track_item reaches the _save_tracking_data of line 64
track_item_saves(t, list_id, item_id) == item_id \notin t[list_id]

\* line 88: remove_tracking reaches the _save_tracking_data of line 90
remove_tracking_saves(t, list_id, item_id) == item_id \in t[list_id]

\* _save_tracking_data lines 43-47, when called: open(file, 'w') and
\* json.dump either write the in-memory data to the file, or raise an
\* exception that is logged and dropped: before the file is opened, which
\* leaves it as it was, or after, which leaves it cut short
_save_tracking_data_with(called, outcome) ==
  /\ tracking_file' = IF ~called THEN tracking_file
                      ELSE IF outcome = "ok" THEN tracking'
                      ELSE IF outcome = "open_fails" THEN tracking_file
                      ELSE NotJson
  /\ saves' = IF called THEN saves + 1 ELSE saves

\* _save_tracking_data over storage that takes the write
_save_tracking_data(called) == _save_tracking_data_with(called, "ok")

\* what a write to the tracking file can come to: storage that can fail
\* is storage with faults left
WriteOutcomes ==
  IF faults_left > 0 THEN {"ok", "open_fails", "dump_fails"} ELSE {"ok"}

(***************************************************************************)
(* OurGroceriesClient (clients/ourgroceries_client.py) and the mirror      *)
(* service behind it.  A call that fails after its retries returns False   *)
(* and leaves the service's list as it was.                                *)
(***************************************************************************)
\* add_item_to_list writing the name and the quantity with a blank between
\* them instead of the configured separator
ItemValue_blank_separator(item_name, quantity) ==
  IF Truthy(quantity) THEN item_name \o <<" ">> \o quantity ELSE item_name

\* add_item_to_list: the value written for a name and a quantity string
ItemValue(item_name, quantity) ==
  IF Truthy(quantity) THEN item_name \o quantity_separator \o quantity ELSE item_name

\* the service's list after a successful add (new items go to the end)
MirrorAdd(m, id, value) ==
  Append(m, [id |-> id, value |-> value, crossedOff |-> FALSE, list |-> og_list_id])

\* the service's list after a successful remove
MirrorRemove(m, id) == SelectSeq(m, LAMBDA e : e.id # id)

\* the outcomes of add_item_to_list: False; True with the new id in the
\* response; True with a response that carries no itemId
AddOutcomes == IF faults_left > 0 THEN {"fail", "ok", "ok_noid"} ELSE {"ok"}

\* the outcomes of a call that returns True or False
CallOutcomes == IF faults_left > 0 THEN BOOLEAN ELSE {TRUE}

\* one remote call more has failed
Fault(failed) == faults_left' = IF failed THEN faults_left - 1 ELSE faults_left

AddCall(src, value, outcome) ==
  [op |-> "add", src |-> src, id |-> IF outcome = "fail" THEN 0 ELSE next_id,
   value |-> value, ok |-> outcome # "fail"]

RemoveCall(src, id, ok) ==
  [op |-> "remove", src |-> src, id |-> id, value |-> << >>, ok |-> ok]

\* get_list_items: the items of one list of the mirror service
get_list_items(list_id) == SelectSeq(mirror, LAMBDA e : e.list = list_id)

\* GrocyClient.get_shopping_list_items: the items of one shopping list
get_shopping_list_items(list_id) ==
  SelectSeq(source, LAMBDA g : g.shopping_list_id = list_id)

\* lines 46-47 and 60: re-authenticate after one hour; base delay between
\* retries, in seconds
auth_expiry == 3600
retry_delay == 2

\* _ensure_authenticated lines 130-137: whether the login still counts, so
\* that authenticate() is not called
still_authenticated(cl) ==
  cl.authenticated /\ (cl.now - cl.auth_time) < auth_expiry

\* authenticate lines 111-121 with _async_authenticate lines 94-102: the
\* client after a login that succeeds or fails
after_authenticate(cl, login_ok) ==
  IF login_ok
  THEN [cl EXCEPT !.authenticated = TRUE, !.auth_time = cl.now]
  ELSE [cl EXCEPT !.authenticated = FALSE]

\* the cache expiry of the list items, line 74: 60 seconds, in ticks of 30
list_items_expiry == 2

\* get_list_items lines 252-254: the list has a cached entry and it is fresh
\* (_cache['list_items'] and _cache_time['list_items'] are dicts: functions
\* whose domain is the set of keys)
list_items_cached(cl, list_id) ==
  /\ list_id \in DOMAIN cl.list_items_time
  /\ cl.now - cl.list_items_time[list_id] < list_items_expiry
  /\ list_id \in DOMAIN cl.list_items

\* d[key] = value
DictSet(d, key, value) ==
  [k \in DOMAIN d \cup {key} |-> IF k = key THEN value ELSE d[k]]

\* del d[key]
DictDel(d, key) == [k \in DOMAIN d \ {key} |-> d[k]]

\* get_list_items lines 249-276: [client, items, cached] for a list, the
\* service holding service_items and answering or not
cached_get_list_items(cl, list_id, service_items, fetch_ok) ==
  IF list_items_cached(cl, list_id)
  THEN [client |-> cl, items |-> cl.list_items[list_id], cached |-> TRUE]
  ELSE IF fetch_ok
  THEN [client |-> [cl EXCEPT !.list_items = DictSet(@, list_id, service_items),
                              !.list_items_time = DictSet(@, list_id, cl.now)],
        items |-> service_items, cached |-> FALSE]
  ELSE [client |-> cl, items |-> << >>, cached |-> FALSE]

\* a client that keeps the cached items of a list it has written to
keep_list_items(cl, list_id) == cl

\* add_item_to_list lines 313-317 and remove_item_from_list lines 367-371:
\* the list's cached items and their timestamp are deleted
invalidate_list_items(cl, list_id) ==
  IF list_id \in DOMAIN cl.list_items
  THEN [cl EXCEPT !.list_items = DictDel(@, list_id),
                  !.list_items_time = DictDel(@, list_id)]
  ELSE cl

\* GrocyClient.get_product lines 202-247: [client, product, cached]; a
\* product in the cache is returned whatever its age (product_time is the
\* time it was fetched at, which the code does not keep)
cached_get_product(cl, product_id, fetch_ok) ==
  IF product_id \in DOMAIN cl.products
  THEN [client |-> cl, product |-> cl.products[product_id], cached |-> TRUE]
  ELSE IF fetch_ok
  THEN [client |-> [cl EXCEPT !.products = DictSet(@, product_id, cl.service_products[product_id]),
                              !.product_time = DictSet(@, product_id, cl.now)],
        product |-> cl.service_products[product_id], cached |-> FALSE]
  ELSE [client |-> cl, product |-> [name |-> Missing], cached |-> FALSE]

\* find_category_in_categories: the id of the first category of the listing
\* whose name is the requested one, case folded; None when there is none
find_category_in_categories(categories, category_name) ==
  LET hits == {i \in 1..Len(categories) :
                 Lower(categories[i].name) = Lower(category_name)}
  IN IF hits = {} THEN None
     ELSE categories[CHOOSE i \in hits : \A j \in hits : i <= j].id

\* find_category_in_category_mappings: category_ids (a sequence of <<key,
\* id>>, in the order of the dict) looked up by the lower-cased name, then
\* the first key that is part of the name or that the name is part of
find_category_in_category_mappings(category_ids, category_name) ==
  LET category_name_lower == Lower(category_name)
      exact == {i \in 1..Len(category_ids) : category_ids[i][1] = category_name_lower}
      partial == {i \in 1..Len(category_ids) :
                    \/ Contains(category_name_lower, category_ids[i][1])
                    \/ Contains(category_ids[i][1], category_name_lower)}
  IN IF exact # {} THEN category_ids[CHOOSE i \in exact : TRUE][2]
     ELSE IF partial # {}
     THEN category_ids[CHOOSE i \in partial : \A j \in partial : i <= j][2]
     ELSE None

\* the cache expiry of the categories, line 75: 60 seconds, in ticks of 30
categories_expiry == 2

\* get_categories, lines 413-416: the cache is served when it is fresh and
\* truthy (the cache is << >> both for an empty listing and for None, which
\* the code tells apart nowhere)
categories_cached(cl) ==
  /\ cl.now - cl.categories_time < categories_expiry
  /\ cl.categories # << >>

\* get_categories: the listing it returns, the cache when served, otherwise
\* what the service sent, [] when the request failed
get_categories(cl, fetch_ok) ==
  IF categories_cached(cl) THEN cl.categories
  ELSE IF fetch_ok THEN cl.service_categories ELSE << >>

\* the client after get_categories: a listing that was fetched is cached
after_get_categories(cl, fetch_ok) ==
  [cl EXCEPT !.categories = IF ~categories_cached(cl) /\ fetch_ok
                            THEN cl.service_categories ELSE @,
             !.categories_time = IF ~categories_cached(cl) /\ fetch_ok
                                 THEN cl.now ELSE @,
             !.listed = Append(@, get_categories(cl, fetch_ok))]

\* the id the service gives a category it creates
NewCategoryId == <<"n","e","w">>

\* the client after create_category returned: the service has the category,
\* and lines 517-518 drop the cached master list and categories
after_create_category(cl, category_name) ==
  [cl EXCEPT !.service_categories = Append(@, [name |-> category_name, id |-> NewCategoryId]),
             !.categories = << >>]

\* get_or_create_category, lines 499-533: [client, category, created] for
\* the outcomes of its remote calls; created says whether create_category
\* was called
get_or_create_category(cl, category_name, fetch1_ok, create_ok, fetch2_ok) ==
  LET cl1 == after_get_categories(cl, fetch1_ok)
      in_categories == find_category_in_categories(get_categories(cl, fetch1_ok), category_name)
      in_mappings == find_category_in_category_mappings(cl.category_ids, category_name)
      cl2 == after_create_category(cl1, category_name)
      cl3 == after_get_categories(cl2, fetch2_ok)
      again == find_category_in_categories(get_categories(cl2, fetch2_ok), category_name)
  IN IF Truthy(in_categories)
     THEN [client |-> cl1, category |-> in_categories, created |-> FALSE]
     ELSE IF Truthy(in_mappings)
     THEN [client |-> cl1, category |-> in_mappings, created |-> FALSE]
     ELSE IF ~create_ok
     THEN [client |-> cl1, created |-> TRUE,
           category |-> IF Truthy(cl.default_category_id)
                        THEN cl.default_category_id ELSE None]
     ELSE [client |-> cl3, category |-> again, created |-> TRUE]

(***************************************************************************)
(* SyncManager (sync/sync_manager.py)                                      *)
(*                                                                         *)
(* A Grocy item is [done, has_product, product_details, note, amount,      *)
(* qu_id]; has_product says that 'product_details' is present and not      *)
(* empty.                                                                  *)
(***************************************************************************)
\* _get_product_info's product_name (the same lines stand in process_deletions)
get_product_name(grocy_item) ==
  IF grocy_item.has_product
  THEN grocy_item.product_details.name
  ELSE IF grocy_item.note = Missing
       THEN <<"U","n","k","n","o","w","n"," ","i","t","e","m">>
       ELSE grocy_item.note

\* _process_grocy_item raises: format_quantity or find_matching_item does
process_raises(grocy_item) ==
  \/ format_quantity(grocy_item).exc
  \/ find_matching_item_raises(get_product_name(grocy_item))

\* sync_all_lists keeping only the result of the latest sync_list call
AfterSyncListLatestOnly(s) == IF passes' > passes THEN result' = "ok" ELSE s

\* sync_all_lists lines 313-314: success after a step, which may have been
\* the return of sync_list
AfterSyncList(s) == IF passes' > passes THEN s /\ result' = "ok" ELSE s

\* sync_all_lists lines 309-314: the calls of sync_list made so far, after a
\* step, which may have been the return of one
AfterReturn(r) ==
  IF passes' > passes
  THEN Append(r, [grocy_list_id |-> grocy_list_id, ourgroceries_list_name |-> og_list_id,
                  result |-> result'])
  ELSE r

\* _update_existing_item lines 224-250: the step removed the matched entry
\* and its add of the replacement then failed, so the item's entry is gone
AfterUpdate(v) ==
  IF /\ Len(calls') = Len(calls) + 2
     /\ calls'[Len(calls') - 1].op = "remove" /\ calls'[Len(calls') - 1].ok
     /\ calls'[Len(calls')].op = "add" /\ ~calls'[Len(calls')].ok
  THEN v \cup {[item |-> grocy_items[idx], pass |-> passes]}
  ELSE v

\* the entries the step's successful adds created, by list
NewlyWritten ==
  {<<og_list_id, calls'[k].id>> :
     k \in {n \in (Len(calls) + 1)..Len(calls') : calls'[n].op = "add" /\ calls'[n].ok}}

\* sync_list returns: the pass is over
EndPass(res) ==
  /\ pc' = "idle"
  /\ result' = res
  /\ passes' = passes + 1

\* the for loop of sync_list moves on; after the last item come the deletions
NextItem ==
  /\ idx' = idx + 1
  /\ pc' = IF idx + 1 > Len(grocy_items) THEN "deletions" ELSE "process"
  /\ UNCHANGED <<result, passes>>

\* _update_existing_item without the test of line 230: the replacement is
\* added whatever remove_item_from_list returned
_update_adding_regardless(src, existing_item, og_item_name, quantity_str) ==
  LET existing_quantity == extract_existing_quantity(existing_item)
      value == ItemValue(og_item_name, quantity_str)
      removed == MirrorRemove(mirror, existing_item.id)
  IN IF has_quantity_changed(existing_quantity, quantity_str)
     THEN \E rm_ok \in CallOutcomes :
            /\ mirror' = MirrorAdd(IF rm_ok THEN removed ELSE mirror, next_id, value)
            /\ next_id' = next_id + 1
            /\ last_added' = next_id
            /\ tracking' = track_item(tracking, og_list_id, next_id)
            /\ calls' = calls \o <<RemoveCall(src, existing_item.id, rm_ok),
                                   AddCall(src, value, "ok")>>
            /\ pass_ok' = (pass_ok /\ rm_ok)
            /\ Fault(~rm_ok)
     ELSE UNCHANGED <<mirror, next_id, last_added, tracking, calls, pass_ok, faults_left>>

\* _update_existing_item without the test of line 220: the entry is replaced
\* whether or not its quantity has changed
_update_replacing_always(src, existing_item, og_item_name, quantity_str) ==
  LET value == ItemValue(og_item_name, quantity_str)
      removed == MirrorRemove(mirror, existing_item.id)
  IN /\ mirror' = MirrorAdd(removed, next_id, value)
     /\ next_id' = next_id + 1
     /\ last_added' = next_id
     /\ tracking' = track_item(tracking, og_list_id, next_id)
     /\ calls' = calls \o <<RemoveCall(src, existing_item.id, TRUE),
                            AddCall(src, value, "ok")>>
     /\ UNCHANGED <<pass_ok, faults_left>>

_update_existing_item(src, existing_item, og_item_name, quantity_str) ==
  LET existing_quantity == extract_existing_quantity(existing_item)
      value == ItemValue(og_item_name, quantity_str)
      removed == MirrorRemove(mirror, existing_item.id)
  IN IF has_quantity_changed(existing_quantity, quantity_str)
     THEN \E rm_ok \in CallOutcomes :
            IF rm_ok
            THEN \E out \in AddOutcomes :
                   LET new_item_id == IF out = "ok" THEN next_id ELSE last_added
                   IN /\ mirror' = IF out = "fail" THEN removed
                                   ELSE MirrorAdd(removed, next_id, value)
                      /\ next_id' = IF out = "fail" THEN next_id ELSE next_id + 1
                      /\ last_added' = new_item_id
                      /\ tracking' = IF out # "fail" /\ new_item_id # 0
                                     THEN track_item(tracking, og_list_id, new_item_id)
                                     ELSE tracking
                      /\ calls' = calls \o <<RemoveCall(src, existing_item.id, TRUE),
                                             AddCall(src, value, out)>>
                      /\ pass_ok' = (pass_ok /\ out # "fail")
                      /\ Fault(out # "ok")
            ELSE /\ calls' = Append(calls, RemoveCall(src, existing_item.id, FALSE))
                 /\ pass_ok' = FALSE
                 /\ Fault(TRUE)
                 /\ UNCHANGED <<mirror, next_id, last_added, tracking>>
     ELSE UNCHANGED <<mirror, next_id, last_added, tracking, calls, pass_ok, faults_left>>

\* _add_new_item without the test of line 284: an id is tracked whatever
\* add_item_to_list returned
_add_tracking_regardless(src, og_item_name, quantity_str) ==
  LET value == ItemValue(og_item_name, quantity_str)
  IN \E out \in AddOutcomes :
       /\ mirror' = IF out = "fail" THEN mirror ELSE MirrorAdd(mirror, next_id, value)
       /\ next_id' = IF out = "fail" THEN next_id ELSE next_id + 1
       /\ last_added' = IF out = "ok" THEN next_id ELSE last_added
       /\ tracking' = track_item(tracking, og_list_id, next_id)
       /\ calls' = Append(calls, AddCall(src, value, out))
       /\ pass_ok' = (pass_ok /\ out # "fail")
       /\ Fault(out # "ok")

_add_new_item(src, og_item_name, quantity_str) ==
  LET value == ItemValue(og_item_name, quantity_str)
  IN \E out \in AddOutcomes :
       LET item_id == IF out = "ok" THEN next_id ELSE last_added
       IN /\ mirror' = IF out = "fail" THEN mirror ELSE MirrorAdd(mirror, next_id, value)
          /\ next_id' = IF out = "fail" THEN next_id ELSE next_id + 1
          /\ last_added' = item_id
          /\ tracking' = IF out # "fail" /\ item_id # 0
                         THEN track_item(tracking, og_list_id, item_id)
                         ELSE tracking
          /\ calls' = Append(calls, AddCall(src, value, out))
          /\ pass_ok' = (pass_ok /\ out # "fail")
          /\ Fault(out # "ok")

_process_grocy_item(src, grocy_item) ==
  LET product_name == get_product_name(grocy_item)
      quantity_str == format_quantity(grocy_item).quantity_str
      og_item_name == map_item_name(product_name)
      existing == find_matching_item(product_name, og_items)
  IN IF existing # 0
     THEN _update_existing_item(src, og_items[existing], og_item_name, quantity_str)
     ELSE _add_new_item(src, og_item_name, quantity_str)

(***************************************************************************)
(* DeletionManager.process_deletions (sync/deletion_manager.py)            *)
(***************************************************************************)
NotDone(g_items) == {i \in 1..Len(g_items) : g_items[i].done # 1}

\* og_item_name.lower() raises AttributeError on a None name
deletions_raise(g_items) ==
  \E i \in NotDone(g_items) : map_item_name(get_product_name(g_items[i])) = None

\* the names of the Grocy items lower-cased without being mapped
grocy_product_names_unmapped(g_items) ==
  {Lower(get_product_name(g_items[i])) : i \in NotDone(g_items)}

\* the set grocy_product_names
grocy_product_names(g_items) ==
  {Lower(map_item_name(get_product_name(g_items[i]))) : i \in NotDone(g_items)}

\* the guards of the loop without the ledger test of lines 72-74
marked_ignoring_ledger(t, list_id, g_items, og_item) ==
  /\ WellFormed(og_item)
  /\ ~(respect_crossed_off /\ og_item.crossedOff)
  /\ extract_base_name(og_item.value) \notin grocy_product_names(g_items)

\* the guards of the loop without the crossed-off test of lines 67-69
marked_ignoring_crossed_off(t, list_id, g_items, og_item) ==
  /\ WellFormed(og_item)
  /\ ~(preserve_manual_items /\ ~is_tracked_item(t, list_id, og_item.id))
  /\ extract_base_name(og_item.value) \notin grocy_product_names(g_items)

\* the guards of the loop over og_items: TRUE when the item is appended to
\* items_to_remove
marked_for_removal(t, list_id, g_items, og_item) ==
  /\ WellFormed(og_item)
  /\ ~(respect_crossed_off /\ og_item.crossedOff)
  /\ ~(preserve_manual_items /\ ~is_tracked_item(t, list_id, og_item.id))
  /\ extract_base_name(og_item.value) \notin grocy_product_names(g_items)

\* items_to_remove, in the order of og_items
compute_removals(t, list_id, g_items, o_items) ==
  SelectSeq(o_items, LAMBDA og_item : marked_for_removal(t, list_id, g_items, og_item))

(***************************************************************************)
(* The steps of one pass: SyncManager.sync_list                            *)
(***************************************************************************)
\* sync_list without the early return of lines 100-102: an empty Grocy list
\* goes on to the lookup of the OurGroceries list
StartPassWithoutEmptyReturn ==
  /\ pc = "idle"
  /\ passes < MaxPasses
  /\ \E ok \in CallOutcomes :
       /\ grocy_items' = IF ok THEN get_shopping_list_items(grocy_list_id) ELSE << >>
       /\ pass_ok' = ok
       /\ Fault(~ok)
       /\ pc' = "find_list"
       /\ UNCHANGED <<result, passes>>
  /\ idx' = 0
  /\ ridx' = 0
  /\ prev_ok' = (passes > 0 /\ result = "ok" /\ pass_ok /\ ~changed)
  /\ changed' = FALSE
  /\ calls' = << >>
  /\ ledger0' = tracking
  /\ og_items' = << >>
  /\ items_to_remove' = << >>
  /\ UNCHANGED <<config, source, mirror, next_id, tracking, last_added>>
  /\ all_success' = AfterSyncList(IF passes % Len(list_mappings) = 0 THEN TRUE ELSE all_success)
  /\ returned' = AfterReturn(IF passes % Len(list_mappings) = 0 THEN << >> ELSE returned)
  /\ UNCHANGED <<list_mappings, written, connected>>
  /\ UNCHANGED <<tracking_file, saves, client, vanished>>

\* lines 96-102: fetch the Grocy items; a failed fetch returns [] as an
\* empty list does, and sync_list then returns True at once
StartPass ==
  /\ pc = "idle"
  /\ passes < MaxPasses
  /\ \E ok \in CallOutcomes :
       /\ grocy_items' = IF ok THEN get_shopping_list_items(grocy_list_id) ELSE << >>
       /\ pass_ok' = ok
       /\ Fault(~ok)
       /\ IF grocy_items' = << >>
          THEN EndPass("ok")
          ELSE /\ pc' = "find_list"
               /\ UNCHANGED <<result, passes>>
  /\ idx' = 0
  /\ ridx' = 0
  /\ prev_ok' = (passes > 0 /\ result = "ok" /\ pass_ok /\ ~changed)
  /\ changed' = FALSE
  /\ calls' = << >>
  /\ ledger0' = tracking
  /\ og_items' = << >>
  /\ items_to_remove' = << >>
  /\ UNCHANGED <<config, source, mirror, next_id, tracking, last_added>>
  /\ all_success' = AfterSyncList(IF passes % Len(list_mappings) = 0 THEN TRUE ELSE all_success)
  /\ returned' = AfterReturn(IF passes % Len(list_mappings) = 0 THEN << >> ELSE returned)
  /\ UNCHANGED <<list_mappings, written, connected>>
  /\ UNCHANGED <<tracking_file, saves, client, vanished>>

\* lines 104-117: get_list_by_name finds no list (sync_list returns False),
\* or get_list_items fails and returns [], or the snapshot is fetched
FetchMirror ==
  /\ pc = "find_list"
  /\ \E outcome \in IF faults_left > 0 THEN {"not_found", "items_failed", "ok"} ELSE {"ok"} :
       /\ og_items' = IF outcome = "ok" THEN get_list_items(og_list_id) ELSE << >>
       /\ pass_ok' = (pass_ok /\ outcome = "ok")
       /\ Fault(outcome # "ok")
       /\ IF outcome = "not_found"
          THEN EndPass("failed") /\ UNCHANGED idx
          ELSE /\ pc' = "process"
               /\ idx' = 1
               /\ UNCHANGED <<result, passes>>
  /\ UNCHANGED <<ridx, config, source, mirror, next_id, tracking, last_added, grocy_items,
                 items_to_remove, calls, ledger0, prev_ok, changed>>
  /\ all_success' = AfterSyncList(all_success)
  /\ returned' = AfterReturn(returned)
  /\ UNCHANGED <<list_mappings, written, connected>>
  /\ UNCHANGED <<tracking_file, saves, client, vanished>>

\* the loop of sync_list fetching the OurGroceries items anew after each
\* Grocy item
ProcessItemRefetching ==
  /\ pc = "process"
  /\ idx <= Len(grocy_items)
  /\ IF grocy_items[idx].done = 1
     THEN /\ NextItem
          /\ UNCHANGED <<mirror, next_id, last_added, tracking, calls, pass_ok, faults_left>>
     ELSE IF process_raises(grocy_items[idx])
          THEN /\ EndPass("failed")
               /\ pass_ok' = FALSE
               /\ UNCHANGED <<idx, mirror, next_id, last_added, tracking, calls, faults_left>>
          ELSE /\ _process_grocy_item(idx, grocy_items[idx])
               /\ NextItem
  /\ og_items' = SelectSeq(mirror', LAMBDA e : e.list = og_list_id)
  /\ UNCHANGED <<ridx, config, source, grocy_items, items_to_remove, ledger0,
                 prev_ok, changed>>
  /\ all_success' = AfterSyncList(all_success)
  /\ written' = written \cup NewlyWritten
  /\ returned' = AfterReturn(returned)
  /\ UNCHANGED <<list_mappings, connected>>
  /\ _save_tracking_data(tracking' # tracking)
  /\ vanished' = AfterUpdate(vanished)
  /\ UNCHANGED client

\* lines 120-126: one turn of the loop over grocy_items; an exception leaves
\* the loop for the handler of lines 133-136
ProcessItem ==
  /\ pc = "process"
  /\ idx <= Len(grocy_items)
  /\ IF grocy_items[idx].done = 1
     THEN /\ NextItem
          /\ UNCHANGED <<mirror, next_id, last_added, tracking, calls, pass_ok, faults_left>>
     ELSE IF process_raises(grocy_items[idx])
          THEN /\ EndPass("failed")
               /\ pass_ok' = FALSE
               /\ UNCHANGED <<idx, mirror, next_id, last_added, tracking, calls, faults_left>>
          ELSE /\ _process_grocy_item(idx, grocy_items[idx])
               /\ NextItem
  /\ UNCHANGED <<ridx, config, source, grocy_items, og_items, items_to_remove, ledger0,
                 prev_ok, changed>>
  /\ all_success' = AfterSyncList(all_success)
  /\ written' = written \cup NewlyWritten
  /\ returned' = AfterReturn(returned)
  /\ UNCHANGED <<list_mappings, connected>>
  /\ _save_tracking_data(tracking' # tracking)
  /\ vanished' = AfterUpdate(vanished)
  /\ UNCHANGED client

\* process_deletions lines 39-81: return when disabled, else build
\* items_to_remove
DeletionsStart ==
  /\ pc = "deletions"
  /\ IF ~enabled
     THEN /\ pc' = "return"
          /\ UNCHANGED <<items_to_remove, ridx, result, passes, pass_ok>>
     ELSE IF deletions_raise(grocy_items)
          THEN /\ EndPass("failed")
               /\ pass_ok' = FALSE
               /\ UNCHANGED <<items_to_remove, ridx>>
          ELSE /\ items_to_remove' = compute_removals(tracking, og_list_id, grocy_items, og_items)
               /\ ridx' = 1
               /\ pc' = "removing"
               /\ UNCHANGED <<result, passes, pass_ok>>
  /\ UNCHANGED <<idx, config, source, mirror, next_id, tracking, last_added, grocy_items,
                 og_items, calls, ledger0, prev_ok, changed, faults_left>>
  /\ all_success' = AfterSyncList(all_success)
  /\ returned' = AfterReturn(returned)
  /\ UNCHANGED <<list_mappings, written, connected>>
  /\ UNCHANGED <<tracking_file, saves, client, vanished>>

\* one turn of the removal loop without the test of line 90: the id leaves
\* the ledger whatever remove_item_from_list returned
DeletionStepUntracking ==
  /\ pc = "removing"
  /\ ridx <= Len(items_to_remove)
  /\ LET item == items_to_remove[ridx]
     IN IF dry_run
        THEN UNCHANGED <<mirror, tracking, calls, pass_ok, faults_left>>
        ELSE \E success \in CallOutcomes :
               /\ mirror' = IF success THEN MirrorRemove(mirror, item.id) ELSE mirror
               /\ tracking' = remove_tracking(tracking, og_list_id, item.id)
               /\ calls' = Append(calls, RemoveCall(0, item.id, success))
               /\ pass_ok' = (pass_ok /\ success)
               /\ Fault(~success)
  /\ ridx' = ridx + 1
  /\ pc' = IF ridx + 1 > Len(items_to_remove) THEN "return" ELSE "removing"
  /\ UNCHANGED <<config, source, next_id, last_added, grocy_items, og_items, idx,
                 items_to_remove, result, passes, ledger0, prev_ok, changed>>
  /\ UNCHANGED <<list_mappings, all_success, written, connected, returned>>
  /\ _save_tracking_data(tracking' # tracking)
  /\ UNCHANGED <<client, vanished>>

\* process_deletions lines 84-93: one turn of the removal loop
DeletionStep ==
  /\ pc = "removing"
  /\ ridx <= Len(items_to_remove)
  /\ LET item == items_to_remove[ridx]
     IN IF dry_run
        THEN UNCHANGED <<mirror, tracking, calls, pass_ok, faults_left>>
        ELSE \E success \in CallOutcomes :
               /\ mirror' = IF success THEN MirrorRemove(mirror, item.id) ELSE mirror
               /\ tracking' = IF success
                              THEN remove_tracking(tracking, og_list_id, item.id)
                              ELSE tracking
               /\ calls' = Append(calls, RemoveCall(0, item.id, success))
               /\ pass_ok' = (pass_ok /\ success)
               /\ Fault(~success)
  /\ ridx' = ridx + 1
  /\ pc' = IF ridx + 1 > Len(items_to_remove) THEN "return" ELSE "removing"
  /\ UNCHANGED <<config, source, next_id, last_added, grocy_items, og_items, idx,
                 items_to_remove, result, passes, ledger0, prev_ok, changed>>
  /\ UNCHANGED <<list_mappings, all_success, written, connected, returned>>
  /\ _save_tracking_data(tracking' # tracking)
  /\ UNCHANGED <<client, vanished>>

\* process_deletions found nothing to remove
DeletionsNone ==
  /\ pc = "removing"
  /\ ridx > Len(items_to_remove)
  /\ pc' = "return"
  /\ UNCHANGED <<config, source, mirror, next_id, tracking, last_added, grocy_items,
                 og_items, idx, items_to_remove, ridx, result, passes, calls, ledger0,
                 pass_ok, prev_ok, changed, faults_left>>
  /\ UNCHANGED <<list_mappings, all_success, written, connected, returned>>
  /\ UNCHANGED <<tracking_file, saves, client, vanished>>

\* sync_list counting item-level failures against its result: it returns
\* False when a mirror call of the pass has failed
FinishPassCountingFailures ==
  /\ pc = "return"
  /\ EndPass(IF \A k \in 1..Len(calls) : calls[k].ok THEN "ok" ELSE "failed")
  /\ UNCHANGED <<idx, ridx, config, source, mirror, next_id, tracking, last_added, grocy_items,
                 og_items, items_to_remove, calls, ledger0, pass_ok, prev_ok, changed,
                 faults_left>>
  /\ all_success' = AfterSyncList(all_success)
  /\ returned' = AfterReturn(returned)
  /\ UNCHANGED <<list_mappings, written, connected>>
  /\ UNCHANGED <<tracking_file, saves, client, vanished>>

\* line 131: sync_list returns True
FinishPass ==
  /\ pc = "return"
  /\ EndPass("ok")
  /\ UNCHANGED <<idx, ridx, config, source, mirror, next_id, tracking, last_added, grocy_items,
                 og_items, items_to_remove, calls, ledger0, pass_ok, prev_ok, changed,
                 faults_left>>
  /\ all_success' = AfterSyncList(all_success)
  /\ returned' = AfterReturn(returned)
  /\ UNCHANGED <<list_mappings, written, connected>>
  /\ UNCHANGED <<tracking_file, saves, client, vanished>>

(***************************************************************************)
(* The source's user, between two passes                                   *)
(***************************************************************************)
\* an item is deleted from the Grocy shopping list
SourceRemove ==
  /\ pc = "idle"
  /\ 0 < passes /\ passes < MaxPasses
  /\ ~changed
  /\ \E i \in 1..Len(source) :
       source' = SubSeq(source, 1, i - 1) \o SubSeq(source, i + 1, Len(source))
  /\ changed' = TRUE
  /\ UNCHANGED <<config, mirror, next_id, tracking, last_added, pc, grocy_items,
                 og_items, idx, items_to_remove, ridx, result, passes, calls, ledger0,
                 pass_ok, prev_ok, faults_left>>
  /\ UNCHANGED <<list_mappings, all_success, written, connected, returned>>
  /\ UNCHANGED <<tracking_file, saves, client, vanished>>

(***************************************************************************)
(* Bounds and the inputs the initial states are drawn from                 *)
(***************************************************************************)
Water == <<"W","a","t","e","r">>

Eggs == <<"E","g","g","s">>

Soap == <<"S","o","a","p">>

IntAmount(n) == [k |-> "int", h |-> 100 * n, s |-> << >>]

Factor(k, n, d) == [k |-> k, n |-> n, d |-> d]

Product(name, purchase, stock, convs) ==
  [name |-> name, qu_id_purchase |-> purchase, qu_id_stock |-> stock,
   quantity_unit_conversions |-> convs]

ProductItem(name, amount, qu_id, stock, convs, done) ==
  [shopping_list_id |-> 1, done |-> done, has_product |-> TRUE,
   product_details |-> Product(name, 1, stock, convs),
   note |-> None, amount |-> IntAmount(amount), qu_id |-> qu_id]

NoteItem(note, amount) ==
  [shopping_list_id |-> 1, done |-> 0, has_product |-> FALSE, product_details |-> Product(None, 0, 0, << >>),
   note |-> note, amount |-> IntAmount(amount), qu_id |-> 0]

\* The items a Grocy list is drawn from, in list order: Water, 3 Bottles; a
\* product without a name; Water again, 1 Bottle; the note "Eggs", 12; a
\* done item; a product whose conversion factor is no number
SourceItems ==
  << ProductItem(Water, 3, 1, 1, << >>, 0),
     ProductItem(None, 1, 1, 1, << >>, 0),
     ProductItem(Water, 1, 1, 1, << >>, 0),
     NoteItem(Eggs, 12),
     ProductItem(Soap, 1, 1, 1, << >>, 1),
     ProductItem(Soap, 2, 2, 1,
                 <<[from_qu_id |-> 2, to_qu_id |-> 1, factor |-> Factor("bad", 0, 1)]>>, 0) >>

\* The items an OurGroceries list is drawn from, in list order:
\* "Water : 3 Bottles"; the legacy form "water (1 bottle)"; "Soap : 1";
\* "Egg : 12", crossed off
MirrorItems ==
  << [id |-> 1, list |-> "L1", crossedOff |-> FALSE,
      value |-> Water \o quantity_separator \o <<"3"," ","B","o","t","t","l","e","s">>],
     [id |-> 2, list |-> "L1", crossedOff |-> FALSE,
      value |-> <<"w","a","t","e","r"," ","(","1"," ","b","o","t","t","l","e",")">>],
     [id |-> 3, list |-> "L1", crossedOff |-> FALSE, value |-> Soap \o quantity_separator \o <<"1">>],
     [id |-> 4, list |-> "L1", crossedOff |-> TRUE,
      value |-> <<"E","g","g">> \o quantity_separator \o <<"1","2">>] >>

\* the elements of seq at the indices in I, in order
Pick(seq, I) ==
  LET RECURSIVE pick(_)
      pick(k) == IF k = 0 THEN << >>
                 ELSE IF k \in I THEN Append(pick(k - 1), seq[k]) ELSE pick(k - 1)
  IN pick(Len(seq))

\* the sublists of seq of at most n elements
SubLists(seq, n) ==
  {Pick(seq, I) : I \in {J \in SUBSET (1..Len(seq)) : Cardinality(J) <= n}}

Flags == {"true", "false"}

\* one configured list pair: Grocy list 1 to the OurGroceries list L1
OnePair == <<[grocy_list_id |-> 1, ourgroceries_list_name |-> "L1"]>>

\* no deletion section at all (every flag at its default), or deletion
\* enabled with every combination of the other flags
Configs ==
  {[enabled |-> "absent", dry_run |-> "absent", respect_crossed_off |-> "absent",
    preserve_manual_items |-> "absent"]}
  \cup [enabled : {"true"}, dry_run : Flags, respect_crossed_off : Flags,
        preserve_manual_items : Flags]

Init ==
  /\ list_mappings = OnePair
  /\ passes = 0
  /\ config \in Configs
  /\ source \in SubLists(SourceItems, MaxSrc)
  /\ mirror \in SubLists(MirrorItems, MaxMirror)
  /\ next_id = Len(MirrorItems) + 1
  /\ \E ids \in SUBSET {mirror[i].id : i \in 1..Len(mirror)} :
       tracking = [l \in ListIds |-> IF l = og_list_id THEN ids ELSE {}]
  /\ last_added = 0
  /\ pc = "idle"
  /\ grocy_items = << >>
  /\ og_items = << >>
  /\ idx = 0
  /\ items_to_remove = << >>
  /\ ridx = 0
  /\ result = "none"
  /\ calls = << >>
  /\ ledger0 = tracking
  /\ pass_ok = TRUE
  /\ prev_ok = FALSE
  /\ changed = FALSE
  /\ faults_left = MaxFaults
  /\ all_success = TRUE
  /\ connected = TRUE
  /\ returned = << >>
  /\ tracking_file = tracking
  /\ saves = 0
  /\ client = NoClient
  /\ vanished = {}
  /\ written = {<<og_list_id, id>> : id \in tracking[og_list_id]}

Next ==
  \/ StartPass
  \/ FetchMirror
  \/ ProcessItem
  \/ DeletionsStart
  \/ DeletionStep
  \/ DeletionsNone
  \/ FinishPass
  \/ SourceRemove

Spec == Init /\ [][Next]_vars

(***************************************************************************)
(* Two passes over a source list of one item, with two remote calls that   *)
(* may fail: a call can fail in the first pass and another in the second.  *)
(***************************************************************************)
\* remote calls that may fail in the two passes
RepairFaults == 2

InitRepair ==
  /\ list_mappings = OnePair
  /\ passes = 0
  /\ config \in Configs
  /\ source \in SubLists(SourceItems, 1) \ {<< >>}
  /\ mirror \in SubLists(MirrorItems, MaxMirror)
  /\ next_id = Len(MirrorItems) + 1
  /\ \E ids \in SUBSET {mirror[i].id : i \in 1..Len(mirror)} :
       tracking = [l \in ListIds |-> IF l = og_list_id THEN ids ELSE {}]
  /\ last_added = 0
  /\ pc = "idle"
  /\ grocy_items = << >>
  /\ og_items = << >>
  /\ idx = 0
  /\ items_to_remove = << >>
  /\ ridx = 0
  /\ result = "none"
  /\ calls = << >>
  /\ ledger0 = tracking
  /\ pass_ok = TRUE
  /\ prev_ok = FALSE
  /\ changed = FALSE
  /\ faults_left = RepairFaults
  /\ all_success = TRUE
  /\ connected = TRUE
  /\ returned = << >>
  /\ tracking_file = tracking
  /\ saves = 0
  /\ client = NoClient
  /\ vanished = {}
  /\ written = {<<og_list_id, id>> : id \in tracking[og_list_id]}

NextRepair ==
  \/ StartPass
  \/ FetchMirror
  \/ ProcessItem
  \/ DeletionsStart
  \/ DeletionStep
  \/ DeletionsNone
  \/ FinishPass
  \/ SourceRemove

SpecRepair == InitRepair /\ [][NextRepair]_vars

(***************************************************************************)
(* process_deletions called on its own, as the unit tests call it: any     *)
(* deletion configuration, any Grocy items, any mirror snapshot with any   *)
(* items crossed off, any ledger; every remove call may fail.              *)
(***************************************************************************)
AllFlags == {"true", "false", "absent"}

\* seq with the items at the indices in X crossed off and no others
CrossOff(seq, X) == [i \in 1..Len(seq) |-> [seq[i] EXCEPT !.crossedOff = (i \in X)]]

InitDel ==
  /\ list_mappings = OnePair
  /\ passes = 0
  /\ config \in [enabled : AllFlags, dry_run : AllFlags, respect_crossed_off : AllFlags,
                 preserve_manual_items : AllFlags]
  /\ source \in SubLists(SourceItems, MaxSrc)
  /\ grocy_items = source
  /\ \E m \in SubLists(MirrorItems, MaxMirror) :
       \E X \in SUBSET (1..Len(m)) : mirror = CrossOff(m, X)
  /\ og_items = mirror
  /\ next_id = Len(MirrorItems) + 1
  /\ \E ids \in SUBSET {mirror[i].id : i \in 1..Len(mirror)} :
       tracking = [l \in ListIds |-> IF l = og_list_id THEN ids ELSE {}]
  /\ last_added = 0
  /\ pc = "deletions"
  /\ idx = Len(grocy_items) + 1
  /\ items_to_remove = << >>
  /\ ridx = 0
  /\ result = "none"
  /\ calls = << >>
  /\ ledger0 = tracking
  /\ pass_ok = TRUE
  /\ prev_ok = FALSE
  /\ changed = FALSE
  /\ faults_left = Len(og_items)
  /\ all_success = TRUE
  /\ connected = TRUE
  /\ returned = << >>
  /\ tracking_file = tracking
  /\ saves = 0
  /\ client = NoClient
  /\ vanished = {}
  /\ written = {<<og_list_id, id>> : id \in tracking[og_list_id]}

NextDel ==
  \/ DeletionsStart
  \/ DeletionStep
  \/ DeletionsNone

SpecDel == InitDel /\ [][NextDel]_vars

(***************************************************************************)
(* One call of sync_list, as the unit tests call it: the last pass of a    *)
(* behaviour, begun with any configuration, source list, mirror list and   *)
(* ledger.                                                                 *)
(***************************************************************************)
InitPass ==
  /\ list_mappings = OnePair
  /\ passes = MaxPasses - 1
  /\ config \in Configs
  /\ source \in SubLists(SourceItems, MaxSrc)
  /\ mirror \in SubLists(MirrorItems, MaxMirror)
  /\ next_id = Len(MirrorItems) + 1
  /\ \E ids \in SUBSET {mirror[i].id : i \in 1..Len(mirror)} :
       tracking = [l \in ListIds |-> IF l = og_list_id THEN ids ELSE {}]
  /\ last_added = 0
  /\ pc = "idle"
  /\ grocy_items = << >>
  /\ og_items = << >>
  /\ idx = 0
  /\ items_to_remove = << >>
  /\ ridx = 0
  /\ result = "none"
  /\ calls = << >>
  /\ ledger0 = tracking
  /\ pass_ok = TRUE
  /\ prev_ok = FALSE
  /\ changed = FALSE
  /\ faults_left = MaxFaults
  /\ all_success = TRUE
  /\ connected = TRUE
  /\ returned = << >>
  /\ tracking_file = tracking
  /\ saves = 0
  /\ client = NoClient
  /\ vanished = {}
  /\ written = {<<og_list_id, id>> : id \in tracking[og_list_id]}

NextPass ==
  \/ StartPass
  \/ FetchMirror
  \/ ProcessItem
  \/ DeletionsStart
  \/ DeletionStep
  \/ DeletionsNone
  \/ FinishPass

SpecPass == InitPass /\ [][NextPass]_vars

(***************************************************************************)
(* One call of sync_list over a Grocy list that can hold two lines of the  *)
(* same product                                                            *)
(***************************************************************************)
\* The items the Grocy list is drawn from, in list order: Water, 1 Bottle;
\* Water again, 2 Bottles; Soap, 1
SameNameItems ==
  << ProductItem(Water, 1, 1, 1, << >>, 0),
     ProductItem(Water, 2, 1, 1, << >>, 0),
     ProductItem(Soap, 1, 1, 1, << >>, 0) >>

InitSameName ==
  /\ list_mappings = OnePair
  /\ passes = MaxPasses - 1
  /\ config \in Configs
  /\ source \in SubLists(SameNameItems, MaxSrc)
  /\ mirror \in SubLists(MirrorItems, MaxMirror)
  /\ next_id = Len(MirrorItems) + 1
  /\ \E ids \in SUBSET {mirror[i].id : i \in 1..Len(mirror)} :
       tracking = [l \in ListIds |-> IF l = og_list_id THEN ids ELSE {}]
  /\ last_added = 0
  /\ pc = "idle"
  /\ grocy_items = << >>
  /\ og_items = << >>
  /\ idx = 0
  /\ items_to_remove = << >>
  /\ ridx = 0
  /\ result = "none"
  /\ calls = << >>
  /\ ledger0 = tracking
  /\ pass_ok = TRUE
  /\ prev_ok = FALSE
  /\ changed = FALSE
  /\ faults_left = MaxFaults
  /\ all_success = TRUE
  /\ connected = TRUE
  /\ returned = << >>
  /\ tracking_file = tracking
  /\ saves = 0
  /\ client = NoClient
  /\ vanished = {}
  /\ written = {<<og_list_id, id>> : id \in tracking[og_list_id]}

NextSameName ==
  \/ StartPass
  \/ FetchMirror
  \/ ProcessItem
  \/ DeletionsStart
  \/ DeletionStep
  \/ DeletionsNone
  \/ FinishPass

SpecSameName == InitSameName /\ [][NextSameName]_vars

(***************************************************************************)
(* SyncTracker alone: track_item and remove_tracking called with any list  *)
(* and any id (utils/tracking.py, tests/test_tracking.py)                  *)
(***************************************************************************)
\* item ids 1..MaxItems are tracked and untracked
MaxItems == 2

\* at most MaxSaves writes of the tracking file in a behaviour
MaxSaves == 3

\* the data loaded has the key "lists"
HasLists == tracking # NoLists

\* what a tracker call leaves alone
NotTracker ==
  <<config, source, mirror, next_id, last_added, pc, grocy_items, og_items, idx,
    items_to_remove, ridx, result, passes, ledger0, pass_ok, prev_ok, changed,
    faults_left, list_mappings, all_success, written, connected, returned, client, vanished>>

TrackerCall(op, list_id, item_id) ==
  [op |-> op, src |-> 0, id |-> item_id, value |-> list_id, ok |-> TRUE]

\* track_item, lines 58-64
TrackItem ==
  /\ pc = "tracker"
  /\ HasLists
  /\ saves < MaxSaves
  /\ \E list_id \in ListIds : \E item_id \in 1..MaxItems :
       /\ tracking' = track_item(tracking, list_id, item_id)
       /\ \E outcome \in WriteOutcomes :
            _save_tracking_data_with(track_item_saves(tracking, list_id, item_id), outcome)
       /\ UNCHANGED <<client, vanished>>
       /\ calls' = <<TrackerCall("track", list_id, item_id)>>
  /\ UNCHANGED NotTracker

\* remove_tracking, lines 88-90
RemoveTracking ==
  /\ pc = "tracker"
  /\ HasLists
  /\ saves < MaxSaves
  /\ \E list_id \in ListIds : \E item_id \in 1..MaxItems :
       /\ tracking' = remove_tracking(tracking, list_id, item_id)
       /\ \E outcome \in WriteOutcomes :
            _save_tracking_data_with(remove_tracking_saves(tracking, list_id, item_id), outcome)
       /\ UNCHANGED <<client, vanished>>
       /\ calls' = <<TrackerCall("untrack", list_id, item_id)>>
  /\ UNCHANGED NotTracker

\* the tracker as loaded from a tracking file of any content
InitTracker ==
  /\ list_mappings = OnePair
  /\ passes = 0
  /\ config \in {c \in Configs : c.enabled = "absent"}
  /\ source = << >>
  /\ grocy_items = << >>
  /\ mirror = << >>
  /\ og_items = << >>
  /\ next_id = 1
  /\ tracking \in [ListIds -> SUBSET (1..MaxItems)]
  /\ last_added = 0
  /\ pc = "tracker"
  /\ idx = 0
  /\ items_to_remove = << >>
  /\ ridx = 0
  /\ result = "none"
  /\ calls = << >>
  /\ ledger0 = tracking
  /\ pass_ok = TRUE
  /\ prev_ok = FALSE
  /\ changed = FALSE
  /\ faults_left = 0
  /\ all_success = TRUE
  /\ connected = TRUE
  /\ returned = << >>
  /\ tracking_file = tracking
  /\ saves = 0
  /\ client = NoClient
  /\ vanished = {}
  /\ written = {}

NextTracker ==
  \/ TrackItem
  \/ RemoveTracking

SpecTracker == InitTracker /\ [][NextTracker]_vars

(***************************************************************************)
(* SyncTracker opened over a tracking file of any content, then called     *)
(* (utils/tracking.py lines 14-39, tests/test_tracking.py lines 15-49)     *)
(***************************************************************************)
\* the contents of the tracking file: none, unusable ones, and every ledger
TrackingFiles ==
  {NoFile, Unreadable, NotJson, NoLists} \cup [ListIds -> SUBSET (1..MaxItems)]

\* is_tracked_item, lines 77-78
IsTrackedItem ==
  /\ pc = "tracker"
  /\ HasLists
  /\ \E list_id \in ListIds : \E item_id \in 1..MaxItems :
       /\ result' = is_tracked_item(tracking, list_id, item_id)
       /\ calls' = <<TrackerCall("is_tracked", list_id, item_id)>>
  /\ UNCHANGED <<config, source, mirror, next_id, tracking, last_added, pc,
                 grocy_items, og_items, idx, items_to_remove, ridx, passes, ledger0,
                 pass_ok, prev_ok, changed, faults_left, list_mappings, all_success,
                 written, connected, returned, tracking_file, saves, client, vanished>>

\* track_item, is_tracked_item and remove_tracking index
\* tracking_data["lists"] (lines 58, 77, 88): KeyError when the data loaded
\* has no such key
TrackerRaises ==
  /\ pc = "tracker"
  /\ ~HasLists
  /\ \E op \in {"track", "is_tracked", "untrack"} :
       \E list_id \in ListIds : \E item_id \in 1..MaxItems :
         calls' = <<[TrackerCall(op, list_id, item_id) EXCEPT !.ok = FALSE]>>
  /\ UNCHANGED <<tracking, tracking_file, saves>>
  /\ UNCHANGED NotTracker

\* SyncTracker.__init__ over any tracking file
InitLoad ==
  /\ list_mappings = OnePair
  /\ passes = 0
  /\ config \in {c \in Configs : c.enabled = "absent"}
  /\ source = << >>
  /\ grocy_items = << >>
  /\ mirror = << >>
  /\ og_items = << >>
  /\ next_id = 1
  /\ tracking_file \in TrackingFiles
  /\ tracking = _load_tracking_data(tracking_file)
  /\ ledger0 = tracking_file
  /\ last_added = 0
  /\ pc = "tracker"
  /\ idx = 0
  /\ items_to_remove = << >>
  /\ ridx = 0
  /\ result = "none"
  /\ calls = << >>
  /\ pass_ok = TRUE
  /\ prev_ok = FALSE
  /\ changed = FALSE
  /\ faults_left = 0
  /\ all_success = TRUE
  /\ connected = TRUE
  /\ returned = << >>
  /\ saves = 0
  /\ client = NoClient
  /\ vanished = {}
  /\ written = {}

NextLoad ==
  \/ TrackItem
  \/ RemoveTracking
  \/ IsTrackedItem
  \/ TrackerRaises

SpecLoad == InitLoad /\ [][NextLoad]_vars

(***************************************************************************)
(* SyncTracker over storage whose writes can fail                          *)
(* (tests/test_tracking.py lines 69-77)                                    *)
(***************************************************************************)
\* SyncTracker.__init__ over a tracking file that loads, on storage that
\* can fail
InitStorage ==
  /\ list_mappings = OnePair
  /\ passes = 0
  /\ config \in {c \in Configs : c.enabled = "absent"}
  /\ source = << >>
  /\ grocy_items = << >>
  /\ mirror = << >>
  /\ og_items = << >>
  /\ next_id = 1
  /\ tracking_file \in TrackingFiles \ {NoLists}
  /\ tracking = _load_tracking_data(tracking_file)
  /\ ledger0 = tracking_file
  /\ last_added = 0
  /\ pc = "tracker"
  /\ idx = 0
  /\ items_to_remove = << >>
  /\ ridx = 0
  /\ result = "none"
  /\ calls = << >>
  /\ pass_ok = TRUE
  /\ prev_ok = FALSE
  /\ changed = FALSE
  /\ faults_left = 1
  /\ all_success = TRUE
  /\ connected = TRUE
  /\ returned = << >>
  /\ saves = 0
  /\ client = NoClient
  /\ vanished = {}
  /\ written = {}

NextStorage ==
  \/ TrackItem
  \/ RemoveTracking
  \/ IsTrackedItem

SpecStorage == InitStorage /\ [][NextStorage]_vars

(***************************************************************************)
(* ItemMatcher alone: its functions applied to entries and names drawn     *)
(* from small pools, under several separators (tests/test_item_matcher.py) *)
(***************************************************************************)
\* the separators configured: the default, " x " and " X "
Separators == {<<" ", ":", " ">>, <<" ", "x", " ">>, <<" ", "X", " ">>}

\* an amount that is text
TextAmount(s) == [k |-> "str", h |-> 0, s |-> s]

\* a shopping list line without product, with any amount
NoteLine(note, amount) ==
  [shopping_list_id |-> 1, done |-> 0, has_product |-> FALSE,
   product_details |-> Product(None, 0, 0, << >>),
   note |-> note, amount |-> amount, qu_id |-> 0]

\* The entries an OurGroceries snapshot is drawn from, in order: "Water",
\* separator, "1 Bottle" without an id; "Water", separator, "3 Bottles";
\* the legacy "water (1 bottle)"; the legacy "Water (3 BOTTLES) (2)" with a
\* counter; the bare "Soap"; "Egg", separator, "12", separator, "6"; an
\* entry without a value
MatcherEntries ==
  << [id |-> 0, list |-> "L1", crossedOff |-> FALSE,
      value |-> Water \o quantity_separator \o <<"1"," ","B","o","t","t","l","e">>],
     [id |-> 1, list |-> "L1", crossedOff |-> FALSE,
      value |-> Water \o quantity_separator \o <<"3"," ","B","o","t","t","l","e","s">>],
     [id |-> 2, list |-> "L1", crossedOff |-> FALSE,
      value |-> <<"w","a","t","e","r"," ","(","1"," ","b","o","t","t","l","e",")">>],
     [id |-> 3, list |-> "L1", crossedOff |-> FALSE,
      value |-> <<"W","a","t","e","r"," ","(","3"," ","B","O","T","T","L","E","S",")",
                  " ","(","2",")">>],
     [id |-> 4, list |-> "L1", crossedOff |-> FALSE, value |-> Soap],
     [id |-> 5, list |-> "L1", crossedOff |-> FALSE,
      value |-> <<"E","g","g">> \o quantity_separator \o <<"1","2">>
                  \o quantity_separator \o <<"6">>],
     [id |-> 6, list |-> "L1", crossedOff |-> FALSE, value |-> Missing] >>

\* the names a Grocy line is drawn from: Water, WATER, Eggs (mapped to Egg)
\* and Soap
MatcherNames == {Water, <<"W","A","T","E","R">>, Eggs, Soap}

\* the new quantities: "3 Bottles", "3bottles", "1<TAB>bottle", "12" and ""
MatcherQuantities ==
  {<<"3"," ","B","o","t","t","l","e","s">>, <<"3","b","o","t","t","l","e","s">>,
   <<"1","\t","b","o","t","t","l","e">>, <<"1","2">>, << >>}

\* what a call of the matcher leaves alone
NotMatcher ==
  <<config, source, mirror, next_id, tracking, last_added, grocy_items, og_items,
    items_to_remove, ridx, passes, calls, ledger0, pass_ok, prev_ok, changed,
    faults_left, list_mappings, all_success, written, connected, returned,
    tracking_file, saves, client, vanished>>

\* extract_base_name applied to the value of the entry idx
ExtractBaseName ==
  /\ pc = "matcher"
  /\ \E i \in 1..Len(og_items) :
       /\ og_items[i].value # Missing
       /\ idx' = i
       /\ result' = extract_base_name(og_items[i].value)
  /\ pc' = "extract_base_name"
  /\ UNCHANGED NotMatcher

\* extract_existing_quantity applied to the entry idx
ExtractExistingQuantity ==
  /\ pc = "matcher"
  /\ \E i \in 1..Len(og_items) :
       /\ idx' = i
       /\ result' = extract_existing_quantity(og_items[i])
  /\ pc' = "extract_existing_quantity"
  /\ UNCHANGED NotMatcher

\* has_quantity_changed applied as _update_existing_item applies it: to the
\* quantity of the entry idx and the quantity string of the Grocy line
HasQuantityChanged ==
  /\ pc = "matcher"
  /\ \E i \in 1..Len(og_items) :
       /\ idx' = i
       /\ result' = has_quantity_changed(extract_existing_quantity(og_items[i]),
                                         format_quantity(grocy_items[1]).quantity_str)
  /\ pc' = "has_quantity_changed"
  /\ UNCHANGED NotMatcher

\* find_matching_item applied to the name of the Grocy line and the snapshot
FindMatchingItem ==
  /\ pc = "matcher"
  /\ idx' = 0
  /\ result' = find_matching_item(get_product_name(grocy_items[1]), og_items)
  /\ pc' = "find_matching_item"
  /\ UNCHANGED NotMatcher

InitMatcher ==
  /\ list_mappings = OnePair
  /\ passes = 0
  /\ \E sep \in Separators :
       config = [enabled |-> "absent", dry_run |-> "absent",
                 respect_crossed_off |-> "absent", preserve_manual_items |-> "absent",
                 quantity_separator |-> sep]
  /\ og_items \in SubLists(MatcherEntries, MaxMirror)
  /\ \E name \in MatcherNames : \E q \in MatcherQuantities :
       grocy_items = <<NoteLine(name, TextAmount(q))>>
  /\ source = grocy_items
  /\ mirror = og_items
  /\ next_id = Len(MatcherEntries) + 1
  /\ tracking = [l \in ListIds |-> {}]
  /\ last_added = 0
  /\ pc = "matcher"
  /\ idx = 0
  /\ items_to_remove = << >>
  /\ ridx = 0
  /\ result = "none"
  /\ calls = << >>
  /\ ledger0 = tracking
  /\ pass_ok = TRUE
  /\ prev_ok = FALSE
  /\ changed = FALSE
  /\ faults_left = 0
  /\ all_success = TRUE
  /\ connected = TRUE
  /\ returned = << >>
  /\ tracking_file = tracking
  /\ saves = 0
  /\ client = NoClient
  /\ vanished = {}
  /\ written = {}

NextMatcher ==
  \/ ExtractBaseName
  \/ ExtractExistingQuantity
  \/ HasQuantityChanged
  \/ FindMatchingItem

SpecMatcher == InitMatcher /\ [][NextMatcher]_vars

(***************************************************************************)
(* An entry written by add_item_to_list, then read by the matcher          *)
(***************************************************************************)
\* the names a written entry is drawn from: the matcher's, and "Tea (bio)"
WrittenNames == MatcherNames \cup {<<"T","e","a"," ","(","b","i","o",")">>}

\* add_item_to_list lines 291-295 and 301-311: the entry for the mapped
\* name and the quantity string of the Grocy line is added to the list
WriteItem ==
  /\ pc = "write"
  /\ LET value == ItemValue(map_item_name(get_product_name(grocy_items[1])),
                            format_quantity(grocy_items[1]).quantity_str)
     IN /\ mirror' = MirrorAdd(mirror, next_id, value)
        /\ og_items' = mirror'
        /\ calls' = <<AddCall(1, value, "ok")>>
  /\ next_id' = next_id + 1
  /\ pc' = "matcher"
  /\ UNCHANGED <<config, source, tracking, last_added, grocy_items, idx, items_to_remove,
                 ridx, result, passes, ledger0, pass_ok, prev_ok, changed, faults_left,
                 list_mappings, all_success, written, connected, returned, tracking_file,
                 saves, client, vanished>>

\* a Grocy line with any name and quantity, an empty mirror list, and any
\* separator
InitWriteRead ==
  /\ list_mappings = OnePair
  /\ passes = 0
  /\ \E sep \in Separators :
       config = [enabled |-> "absent", dry_run |-> "absent",
                 respect_crossed_off |-> "absent", preserve_manual_items |-> "absent",
                 quantity_separator |-> sep]
  /\ og_items = << >>
  /\ \E name \in WrittenNames : \E q \in MatcherQuantities :
       grocy_items = <<NoteLine(name, TextAmount(q))>>
  /\ source = grocy_items
  /\ mirror = og_items
  /\ next_id = 1
  /\ tracking = [l \in ListIds |-> {}]
  /\ last_added = 0
  /\ pc = "write"
  /\ idx = 0
  /\ items_to_remove = << >>
  /\ ridx = 0
  /\ result = "none"
  /\ calls = << >>
  /\ ledger0 = tracking
  /\ pass_ok = TRUE
  /\ prev_ok = FALSE
  /\ changed = FALSE
  /\ faults_left = 0
  /\ all_success = TRUE
  /\ connected = TRUE
  /\ returned = << >>
  /\ tracking_file = tracking
  /\ saves = 0
  /\ client = NoClient
  /\ vanished = {}
  /\ written = {}

NextWriteRead ==
  \/ WriteItem
  \/ ExtractBaseName
  \/ ExtractExistingQuantity
  \/ HasQuantityChanged
  \/ FindMatchingItem

SpecWriteRead == InitWriteRead /\ [][NextWriteRead]_vars

(***************************************************************************)
(* QuantityFormatter alone: its functions applied to lines drawn from      *)
(* small pools (tests/test_quantity_formatter.py)                          *)
(***************************************************************************)
\* a conversion entry of a product
Conversion(from, to, factor) == [from_qu_id |-> from, to_qu_id |-> to, factor |-> factor]

\* The conversions a product's list is drawn from, in order: unit 2 to unit
\* 1 with factor 2; unit 1 to unit 2 with factor 2; unit 2 to unit 1 with
\* factor 0; unit 1 to unit 2 with factor 0; unit 2 to unit 1 with a factor
\* that is no number; unit 1 to unit 2 with a null factor; unit 2 to unit 1
\* without a factor
FormatConversions ==
  << Conversion(2, 1, Factor("num", 2, 1)),
     Conversion(1, 2, Factor("num", 2, 1)),
     Conversion(2, 1, Factor("num", 0, 1)),
     Conversion(1, 2, Factor("num", 0, 1)),
     Conversion(2, 1, Factor("bad", 0, 1)),
     Conversion(1, 2, Factor("none", 0, 1)),
     Conversion(2, 1, Factor("missing", 0, 1)) >>

\* the amounts of a line: 1, 3, 1.5, the text "some", and no amount
FormatAmounts ==
  {IntAmount(1), IntAmount(3), [k |-> "float", h |-> 150, s |-> << >>],
   TextAmount(<<"s","o","m","e">>), [k |-> "missing", h |-> 0, s |-> << >>]}

\* the most conversions a product carries
MaxConvs == 2

\* the lines: a note with any amount and unit, or the product Water, bought
\* in unit 1 (Bottle) and stocked in unit 1 or 2 (Pack), with any amount,
\* unit and conversion list
FormatLines ==
  {NoteLine(Water, a) : a \in FormatAmounts}
  \cup {[NoteLine(Water, a) EXCEPT !.qu_id = u] : a \in FormatAmounts, u \in 1..7}
  \cup {[shopping_list_id |-> 1, done |-> 0, has_product |-> TRUE,
         product_details |-> Product(Water, 1, stock, convs), note |-> None,
         amount |-> a, qu_id |-> u] :
          a \in FormatAmounts, u \in 0..7, stock \in 1..2,
          convs \in SubLists(FormatConversions, MaxConvs)}

\* what a call of the formatter leaves alone
NotFormatter ==
  <<config, source, mirror, next_id, tracking, last_added, grocy_items, og_items,
    items_to_remove, passes, calls, ledger0, pass_ok, prev_ok, changed,
    faults_left, list_mappings, all_success, written, connected, returned,
    tracking_file, saves, client, vanished>>

\* format_quantity applied to the line
FormatQuantity ==
  /\ pc = "formatter"
  /\ result' = format_quantity(grocy_items[1])
  /\ pc' = "format_quantity"
  /\ UNCHANGED <<idx, ridx>>
  /\ UNCHANGED NotFormatter

\* _find_conversion_factor applied to the line's product, from unit idx to
\* unit ridx
FindConversionFactor ==
  /\ pc = "formatter"
  /\ grocy_items[1].has_product
  /\ \E from \in 1..2 : \E to \in (1..2) \ {from} :
       /\ idx' = from
       /\ ridx' = to
       /\ result' = find_conversion_factor(grocy_items[1].product_details, from, to)
  /\ pc' = "find_conversion_factor"
  /\ UNCHANGED NotFormatter

\* _get_unit_name applied to the line's unit and amount
GetUnitName ==
  /\ pc = "formatter"
  /\ get_quantity_unit(grocy_items[1].qu_id).present
  /\ result' = get_unit_name(get_quantity_unit(grocy_items[1].qu_id), grocy_items[1].amount)
  /\ pc' = "get_unit_name"
  /\ UNCHANGED <<idx, ridx>>
  /\ UNCHANGED NotFormatter

InitFormat ==
  /\ list_mappings = OnePair
  /\ passes = 0
  /\ config \in {c \in Configs : c.enabled = "absent"}
  /\ grocy_items \in {<<line>> : line \in FormatLines}
  /\ source = grocy_items
  /\ og_items = << >>
  /\ mirror = << >>
  /\ next_id = 1
  /\ tracking = [l \in ListIds |-> {}]
  /\ last_added = 0
  /\ pc = "formatter"
  /\ idx = 0
  /\ items_to_remove = << >>
  /\ ridx = 0
  /\ result = "none"
  /\ calls = << >>
  /\ ledger0 = tracking
  /\ pass_ok = TRUE
  /\ prev_ok = FALSE
  /\ changed = FALSE
  /\ faults_left = 0
  /\ all_success = TRUE
  /\ connected = TRUE
  /\ returned = << >>
  /\ tracking_file = tracking
  /\ saves = 0
  /\ client = NoClient
  /\ vanished = {}
  /\ written = {}

NextFormat ==
  \/ FormatQuantity
  \/ FindConversionFactor
  \/ GetUnitName

SpecFormat == InitFormat /\ [][NextFormat]_vars

(***************************************************************************)
(* A quantity converted from the stock unit to the purchase unit and back: *)
(* format_quantity applied to a line of a product stocked in unit 2 and    *)
(* bought in unit 1, then to a line carrying the result for a product      *)
(* stocked in unit 1 and bought in unit 2 with the same conversion list,   *)
(* so that the second lookup finds the entry in the inverse direction.     *)
(***************************************************************************)
\* the amounts of the first line are 0.01 .. MaxHundredths / 100
MaxHundredths == 200

\* the factors of the entry from unit 2 to unit 1: 2, 1/2, 3, 1/3, 1
RoundTripFactors ==
  {Factor("num", 2, 1), Factor("num", 1, 2), Factor("num", 3, 1),
   Factor("num", 1, 3), Factor("num", 1, 1)}

\* a line of Water listed in unit qu_id, the product bought in that unit and
\* stocked in the other one
RoundTripLine(amount, qu_id, convs) ==
  [shopping_list_id |-> 1, done |-> 0, has_product |-> TRUE,
   product_details |-> Product(Water, qu_id, 3 - qu_id, convs), note |-> None,
   amount |-> amount, qu_id |-> qu_id]

\* format_quantity converts the amount from unit 2 to unit 1; the line for
\* the way back carries the result
ConvertThere ==
  /\ pc = "round_trip"
  /\ result' = format_quantity(grocy_items[1])
  /\ ~result'.exc
  /\ grocy_items' = Append(grocy_items,
                           RoundTripLine(result'.quantity, 2,
                             grocy_items[1].product_details.quantity_unit_conversions))
  /\ pc' = "there"
  /\ UNCHANGED <<config, source, mirror, next_id, tracking, last_added, og_items, idx,
                 items_to_remove, ridx, passes, calls, ledger0, pass_ok, prev_ok,
                 changed, faults_left, list_mappings, all_success, written, connected,
                 returned, tracking_file, saves, client, vanished>>

\* format_quantity converts the result from unit 1 to unit 2
ConvertBack ==
  /\ pc = "there"
  /\ result' = format_quantity(grocy_items[2])
  /\ pc' = "back"
  /\ UNCHANGED <<idx, ridx>>
  /\ UNCHANGED NotFormatter

InitRoundTrip ==
  /\ list_mappings = OnePair
  /\ passes = 0
  /\ config \in {c \in Configs : c.enabled = "absent"}
  /\ grocy_items \in
       {<<RoundTripLine([k |-> "float", h |-> h, s |-> << >>], 1,
                        <<Conversion(2, 1, f)>>)>> :
          h \in 1..MaxHundredths, f \in RoundTripFactors}
  /\ source = grocy_items
  /\ og_items = << >>
  /\ mirror = << >>
  /\ next_id = 1
  /\ tracking = [l \in ListIds |-> {}]
  /\ last_added = 0
  /\ pc = "round_trip"
  /\ idx = 0
  /\ items_to_remove = << >>
  /\ ridx = 0
  /\ result = "none"
  /\ calls = << >>
  /\ ledger0 = tracking
  /\ pass_ok = TRUE
  /\ prev_ok = FALSE
  /\ changed = FALSE
  /\ faults_left = 0
  /\ all_success = TRUE
  /\ connected = TRUE
  /\ returned = << >>
  /\ tracking_file = tracking
  /\ saves = 0
  /\ client = NoClient
  /\ vanished = {}
  /\ written = {}

NextRoundTrip ==
  \/ ConvertThere
  \/ ConvertBack

SpecRoundTrip == InitRoundTrip /\ [][NextRoundTrip]_vars

(***************************************************************************)
(* OurGroceriesClient.get_or_create_category on its own: any requested     *)
(* name, any categories on the service, any cached listing, any configured *)
(* table and default; every remote call may fail after its retries.        *)
(***************************************************************************)
\* the categories a service's listing is drawn from, in order
ServiceCategories ==
  << [name |-> <<"D","A","I","R","Y">>, id |-> <<"c","1">>],
     [name |-> <<"B","a","k","e","r","y">>, id |-> <<"c","2">>],
     [name |-> <<"d","a","i","r","y">>, id |-> <<"c","3">>] >>

\* the entries a configured category_ids table is drawn from, in order
CategoryIds ==
  << <<<<"d","a","i","r","y">>, <<"m","1">>>>,
     <<<<"m","i","l","k">>, <<"m","2">>>>,
     <<<<"f","r","e","s","h"," ","m","i","l","k">>, <<"m","3">>>> >>

\* the names a category is requested by
CategoryNames == {<<"D","a","i","r","y">>, <<"M","i","l","k">>, <<"F","r","e","s","h"," ","M","i","l","k"," ","B","a","r">>, <<"F","r","o","z","e","n">>}

\* at most MaxCategories categories on the service and entries in the table
MaxCategories == 2

\* the client as constructed (lines 44-85) and used for a while: the clock
\* at 1 or 2 ticks, the categories cache empty or filled at tick 0 with any
\* listing
CategoryClients ==
  {[now |-> now, categories |-> cache, categories_time |-> 0,
    service_categories |-> service, category_ids |-> ids,
    default_category_id |-> default, listed |-> << >>] :
     now \in 1..2,
     cache \in SubLists(ServiceCategories, 1),
     service \in SubLists(ServiceCategories, MaxCategories),
     ids \in SubLists(CategoryIds, MaxCategories),
     default \in {<< >>, <<"d","0">>}}

\* get_or_create_category called with any name, its remote calls succeeding
\* or failing
GetOrCreateCategory ==
  /\ pc = "category"
  /\ \E category_name \in CategoryNames : \E fetch1_ok, create_ok, fetch2_ok \in BOOLEAN :
       LET r == get_or_create_category(client, category_name, fetch1_ok, create_ok, fetch2_ok)
       IN /\ client' = r.client
          /\ result' = r.category
          /\ calls' = <<[op |-> IF r.created THEN "create_category" ELSE "none",
                         src |-> 0, id |-> 0, value |-> category_name,
                         ok |-> r.created => create_ok]>>
  /\ pc' = "get_or_create_category"
  /\ UNCHANGED <<config, source, mirror, next_id, tracking, last_added, grocy_items,
                 og_items, idx, items_to_remove, ridx, passes, ledger0, pass_ok,
                 prev_ok, changed, faults_left, list_mappings, all_success, written,
                 connected, returned, tracking_file, saves, vanished>>

InitCategory ==
  /\ list_mappings = OnePair
  /\ passes = 0
  /\ config \in {c \in Configs : c.enabled = "absent"}
  /\ source = << >>
  /\ grocy_items = << >>
  /\ mirror = << >>
  /\ og_items = << >>
  /\ next_id = 1
  /\ tracking = [l \in ListIds |-> {}]
  /\ last_added = 0
  /\ pc = "category"
  /\ idx = 0
  /\ items_to_remove = << >>
  /\ ridx = 0
  /\ result = "none"
  /\ calls = << >>
  /\ ledger0 = tracking
  /\ pass_ok = TRUE
  /\ prev_ok = FALSE
  /\ changed = FALSE
  /\ faults_left = 0
  /\ all_success = TRUE
  /\ connected = TRUE
  /\ returned = << >>
  /\ tracking_file = tracking
  /\ saves = 0
  /\ client \in CategoryClients
  /\ vanished = {}
  /\ written = {}

NextCategory == GetOrCreateCategory

SpecCategory == InitCategory /\ [][NextCategory]_vars

(***************************************************************************)
(* One call of _run_with_retry, step by step: the authentication check of  *)
(* an attempt, then the request, then the handling of a failure.           *)
(***************************************************************************)
\* the largest max_retries a client is constructed with (3 by default)
MaxRetries == 3

\* what the request returns when it succeeds
RetryValue == "value"

\* an event of the call: the authentication check of an attempt (with
\* whether it had to log in), or the request of an attempt
RetryEvent(op, attempt, login, ok) ==
  [op |-> op, attempt |-> attempt, login |-> login, ok |-> ok]

\* what a step of _run_with_retry leaves alone
NotRetry ==
  <<config, source, mirror, tracking, last_added, next_id, grocy_items, og_items,
    idx, items_to_remove, ridx, passes, ledger0, pass_ok, prev_ok, changed,
    faults_left, list_mappings, all_success, written, connected, returned,
    tracking_file, saves, vanished>>

\* a failure handling that sleeps and goes on without dropping the login
AttemptFailedKeepingLogin(cl) ==
  IF cl.attempt >= cl.max_retries
  THEN /\ client' = cl
       /\ pc' = "raised"
       /\ result' = "OurGroceriesApiError"
  ELSE /\ client' = [cl EXCEPT !.now = @ + retry_delay * (2 ^ cl.attempt),
                               !.attempt = @ + 1]
       /\ pc' = "ensure"
       /\ UNCHANGED result

\* the except branch, lines 163-174, for the client cl the failed attempt
\* left: OurGroceriesApiError after the last attempt, or else the backoff
\* sleep, the login dropped, and the next attempt
AttemptFailed(cl) ==
  IF cl.attempt >= cl.max_retries
  THEN /\ client' = cl
       /\ pc' = "raised"
       /\ result' = "OurGroceriesApiError"
  ELSE /\ client' = [cl EXCEPT !.now = @ + retry_delay * (2 ^ cl.attempt),
                               !.authenticated = FALSE,
                               !.attempt = @ + 1]
       /\ pc' = "ensure"
       /\ UNCHANGED result

\* lines 157-160: the attempt checks the authentication, logging in when
\* the login does not count any more; a login that fails fails the attempt
EnsureAuthenticated ==
  /\ pc = "ensure"
  /\ IF still_authenticated(client)
     THEN /\ calls' = Append(calls, RetryEvent("ensure", client.attempt, FALSE, TRUE))
          /\ pc' = "run"
          /\ UNCHANGED <<client, result>>
     ELSE \E login_ok \in BOOLEAN :
            /\ calls' = Append(calls, RetryEvent("ensure", client.attempt, TRUE, login_ok))
            /\ IF login_ok
               THEN /\ client' = after_authenticate(client, TRUE)
                    /\ pc' = "run"
                    /\ UNCHANGED result
               ELSE AttemptFailed(after_authenticate(client, FALSE))
  /\ UNCHANGED NotRetry

\* line 163: the request of the attempt, which returns or raises
RunAsync ==
  /\ pc = "run"
  /\ \E ok \in BOOLEAN :
       /\ calls' = Append(calls, RetryEvent("run", client.attempt, FALSE, ok))
       /\ IF ok
          THEN /\ pc' = "returned"
               /\ result' = RetryValue
               /\ UNCHANGED client
          ELSE AttemptFailed(client)
  /\ UNCHANGED NotRetry

\* a client at any point of its life (logged in or not, recently or long
\* ago) entering _run_with_retry
InitRetry ==
  /\ list_mappings = OnePair
  /\ passes = 0
  /\ config \in {c \in Configs : c.enabled = "absent"}
  /\ source = << >>
  /\ grocy_items = << >>
  /\ mirror = << >>
  /\ og_items = << >>
  /\ next_id = 1
  /\ tracking = [l \in ListIds |-> {}]
  /\ last_added = 0
  /\ pc = "ensure"
  /\ idx = 0
  /\ items_to_remove = << >>
  /\ ridx = 0
  /\ result = "none"
  /\ calls = << >>
  /\ ledger0 = tracking
  /\ pass_ok = TRUE
  /\ prev_ok = FALSE
  /\ changed = FALSE
  /\ faults_left = 0
  /\ all_success = TRUE
  /\ connected = TRUE
  /\ returned = << >>
  /\ tracking_file = tracking
  /\ saves = 0
  /\ client \in [authenticated : BOOLEAN,
                 auth_time : {0, 3000},
                 now : {3599, 3600},
                 max_retries : 0..MaxRetries,
                 attempt : {0}]
  /\ vanished = {}
  /\ written = {}

NextRetry ==
  \/ EnsureAuthenticated
  \/ RunAsync

SpecRetry == InitRetry /\ [][NextRetry]_vars

\* the call is always given the time to take its next step
FairSpecRetry == SpecRetry /\ WF_vars(NextRetry)

(***************************************************************************)
(* The two clients' caches in a long-running process: the clock ticks,     *)
(* list items and a product are read, entries are added and removed, and   *)
(* the lists and the product are edited on the services from outside.      *)
(***************************************************************************)
\* the clock runs from 0 to MaxTime ticks of 30 seconds
MaxTime == 3

\* at most MaxEntries entries are ever added to the mirror lists
MaxEntries == 2

\* the mirror lists read and written
CacheLists == {"L1", "L2"}

\* the call the latest step made: whether the key had a usable cached value
\* when it was made, the age of the value a read was served from the cache,
\* and whether the call succeeded
CacheCall(op, key, cached, age, ok) ==
  [op |-> op, key |-> key, cached |-> cached, age |-> age, ok |-> ok]

\* the items of a list on the mirror service
ServiceItems(list_id) == SelectSeq(mirror, LAMBDA e : e.list = list_id)

\* what a step of the clients leaves alone
NotClient ==
  <<config, source, tracking, last_added, pc, grocy_items, og_items, idx,
    items_to_remove, ridx, passes, ledger0, pass_ok, prev_ok, changed, faults_left,
    list_mappings, all_success, written, connected, returned, tracking_file, saves,
    vanished>>

\* time passes
Tick ==
  /\ pc = "client"
  /\ client.now < MaxTime
  /\ client' = [client EXCEPT !.now = @ + 1]
  /\ calls' = <<CacheCall("tick", "", FALSE, 0, TRUE)>>
  /\ UNCHANGED <<mirror, next_id, result>>
  /\ UNCHANGED NotClient

\* OurGroceriesClient.get_list_items
GetListItems ==
  /\ pc = "client"
  /\ \E list_id \in CacheLists : \E fetch_ok \in BOOLEAN :
       LET r == cached_get_list_items(client, list_id, ServiceItems(list_id), fetch_ok)
       IN /\ client' = r.client
          /\ result' = r.items
          /\ calls' = <<CacheCall("get_list_items", list_id, r.cached,
                                  IF r.cached THEN client.now - client.list_items_time[list_id]
                                  ELSE 0,
                                  r.cached \/ fetch_ok)>>
  /\ UNCHANGED <<mirror, next_id>>
  /\ UNCHANGED NotClient

\* GrocyClient.get_product
GetProduct ==
  /\ pc = "client"
  /\ \E fetch_ok \in BOOLEAN :
       LET r == cached_get_product(client, 1, fetch_ok)
       IN /\ client' = r.client
          /\ result' = r.product
          /\ calls' = <<CacheCall("get_product", "1", r.cached,
                                  IF r.cached THEN client.now - client.product_time[1] ELSE 0,
                                  r.cached \/ fetch_ok)>>
  /\ UNCHANGED <<mirror, next_id>>
  /\ UNCHANGED NotClient

\* OurGroceriesClient.add_item_to_list: True with the entry added and the
\* list's cache dropped, or False
AddItemToList ==
  /\ pc = "client"
  /\ next_id <= MaxEntries
  /\ \E list_id \in CacheLists : \E ok \in BOOLEAN :
       /\ mirror' = IF ok
                    THEN Append(mirror, [id |-> next_id, value |-> Soap,
                                         crossedOff |-> FALSE, list |-> list_id])
                    ELSE mirror
       /\ next_id' = IF ok THEN next_id + 1 ELSE next_id
       /\ client' = IF ok THEN invalidate_list_items(client, list_id) ELSE client
       /\ result' = ok
       /\ calls' = <<CacheCall("add_item_to_list", list_id,
                               list_id \in DOMAIN client.list_items, 0, ok)>>
  /\ UNCHANGED NotClient

\* OurGroceriesClient.remove_item_from_list: True with the entry removed
\* and the list's cache dropped, or False
RemoveItemFromList ==
  /\ pc = "client"
  /\ \E i \in 1..Len(mirror) : \E ok \in BOOLEAN :
       /\ mirror' = IF ok THEN MirrorRemove(mirror, mirror[i].id) ELSE mirror
       /\ client' = IF ok THEN invalidate_list_items(client, mirror[i].list) ELSE client
       /\ result' = ok
       /\ calls' = <<CacheCall("remove_item_from_list", mirror[i].list,
                               mirror[i].list \in DOMAIN client.list_items, 0, ok)>>
  /\ UNCHANGED next_id
  /\ UNCHANGED NotClient

\* somebody adds an entry to a mirror list with the OurGroceries app
MirrorEdit ==
  /\ pc = "client"
  /\ next_id <= MaxEntries
  /\ \E list_id \in CacheLists :
       mirror' = Append(mirror, [id |-> next_id, value |-> Eggs,
                                 crossedOff |-> FALSE, list |-> list_id])
  /\ next_id' = next_id + 1
  /\ calls' = <<CacheCall("edit", "", FALSE, 0, TRUE)>>
  /\ UNCHANGED <<client, result>>
  /\ UNCHANGED NotClient

\* somebody renames the product in Grocy
ProductEdit ==
  /\ pc = "client"
  /\ client.service_products[1].name = Water
  /\ client' = [client EXCEPT !.service_products[1].name = Soap]
  /\ calls' = <<CacheCall("edit", "", FALSE, 0, TRUE)>>
  /\ UNCHANGED <<mirror, next_id, result>>
  /\ UNCHANGED NotClient

\* both clients as constructed (ourgroceries_client.py lines 62-85,
\* grocy_client.py lines 48-52): empty caches
InitCache ==
  /\ list_mappings = OnePair
  /\ passes = 0
  /\ config \in {c \in Configs : c.enabled = "absent"}
  /\ source = << >>
  /\ grocy_items = << >>
  /\ mirror = << >>
  /\ og_items = << >>
  /\ next_id = 1
  /\ tracking = [l \in ListIds |-> {}]
  /\ last_added = 0
  /\ pc = "client"
  /\ idx = 0
  /\ items_to_remove = << >>
  /\ ridx = 0
  /\ result = "none"
  /\ calls = << >>
  /\ ledger0 = tracking
  /\ pass_ok = TRUE
  /\ prev_ok = FALSE
  /\ changed = FALSE
  /\ faults_left = 0
  /\ all_success = TRUE
  /\ connected = TRUE
  /\ returned = << >>
  /\ tracking_file = tracking
  /\ saves = 0
  /\ client = [now |-> 0,
               list_items |-> [l \in {} |-> << >>],
               list_items_time |-> [l \in {} |-> 0],
               products |-> [p \in {} |-> 0],
               product_time |-> [p \in {} |-> 0],
               service_products |-> [p \in {1} |-> [name |-> Water]]]
  /\ vanished = {}
  /\ written = {}

NextCache ==
  \/ Tick
  \/ GetListItems
  \/ GetProduct
  \/ AddItemToList
  \/ RemoveItemFromList
  \/ MirrorEdit
  \/ ProductEdit

SpecCache == InitCache /\ [][NextCache]_vars

(***************************************************************************)
(* One call of sync_all_lists (sync/sync_manager.py lines 295-322) with as *)
(* many configured list pairs as passes are allowed: Grocy list i goes to  *)
(* the i-th OurGroceries list.                                             *)
(***************************************************************************)
AllPairs ==
  [i \in 1..MaxPasses |-> [grocy_list_id |-> i, ourgroceries_list_name |-> ListNames[i]]]

\* seq with its i-th item put on the Grocy list at[i]
OnLists(seq, at) == [i \in 1..Len(seq) |-> [seq[i] EXCEPT !.shopping_list_id = at[i]]]

\* lines 304-306: test_connections (lines 65-83) asks both services; when
\* either fails sync_all_lists returns False at once
TestConnections ==
  /\ pc = "all_start"
  /\ \E grocy_ok \in CallOutcomes :
       \E og_ok \in IF grocy_ok THEN CallOutcomes ELSE {TRUE} :
         /\ Fault(~(grocy_ok /\ og_ok))
         /\ pc' = IF grocy_ok /\ og_ok THEN "idle" ELSE "all_done"
         /\ connected' = (grocy_ok /\ og_ok)
         /\ all_success' = connected'
  /\ UNCHANGED <<config, source, mirror, next_id, tracking, last_added, grocy_items,
                 og_items, idx, items_to_remove, ridx, result, passes, calls, ledger0,
                 pass_ok, prev_ok, changed, list_mappings, written, returned,
                 tracking_file, saves, client, vanished>>

\* lines 316-321: the loop over the list pairs is over, sync_all_lists
\* returns success
AllReturn ==
  /\ pc = "idle"
  /\ passes = Len(list_mappings)
  /\ pc' = "all_done"
  /\ UNCHANGED <<config, source, mirror, next_id, tracking, last_added, grocy_items,
                 og_items, idx, items_to_remove, ridx, result, passes, calls, ledger0,
                 pass_ok, prev_ok, changed, faults_left, list_mappings, all_success,
                 written, connected, returned, tracking_file, saves, client, vanished>>

\* the default configuration, and live deletion with both guards on
ConfigsAll ==
  {[enabled |-> "absent", dry_run |-> "absent", respect_crossed_off |-> "absent",
    preserve_manual_items |-> "absent"],
   [enabled |-> "true", dry_run |-> "false", respect_crossed_off |-> "true",
    preserve_manual_items |-> "true"]}

InitAll ==
  /\ list_mappings = AllPairs
  /\ passes = 0
  /\ config \in ConfigsAll
  /\ \E s \in SubLists(SourceItems, MaxSrc) :
       \E at \in [1..Len(s) -> 1..MaxPasses] : source = OnLists(s, at)
  /\ mirror \in SubLists(MirrorItems, MaxMirror)
  /\ next_id = Len(MirrorItems) + 1
  /\ tracking = [l \in ListIds |->
                   IF l = "L1" THEN {mirror[i].id : i \in 1..Len(mirror)} ELSE {}]
  /\ last_added = 0
  /\ pc = "all_start"
  /\ grocy_items = << >>
  /\ og_items = << >>
  /\ idx = 0
  /\ items_to_remove = << >>
  /\ ridx = 0
  /\ result = "none"
  /\ calls = << >>
  /\ ledger0 = tracking
  /\ pass_ok = TRUE
  /\ prev_ok = FALSE
  /\ changed = FALSE
  /\ faults_left = MaxFaults
  /\ all_success = TRUE
  /\ connected = TRUE
  /\ returned = << >>
  /\ tracking_file = tracking
  /\ saves = 0
  /\ client = NoClient
  /\ vanished = {}
  /\ written = {<<"L1", id>> : id \in tracking["L1"]}

NextAll ==
  \/ TestConnections
  \/ StartPass
  \/ FetchMirror
  \/ ProcessItem
  \/ DeletionsStart
  \/ DeletionStep
  \/ DeletionsNone
  \/ FinishPass
  \/ AllReturn

SpecAll == InitAll /\ [][NextAll]_vars

(***************************************************************************)
(* Properties.  The flags are read off the configuration itself, with the  *)
(* documented defaults: deletion off, dry-run on, both guards on.          *)
(***************************************************************************)
DeletionOn == config.enabled = "true"

DryRunOn == config.dry_run # "false"

RespectOn == config.respect_crossed_off # "false"

PreserveOn == config.preserve_manual_items # "false"

Live == DeletionOn /\ ~DryRunOn

\* the ids of the mirror as it is now
MirrorIds == {mirror[j].id : j \in 1..Len(mirror)}

\* the ids a remove call was issued for in this pass
RemoveIds == {calls[k].id : k \in {n \in 1..Len(calls) : calls[n].op = "remove"}}

\* the ids a remove call of this pass succeeded for
RemovedIds ==
  {calls[k].id : k \in {n \in 1..Len(calls) : calls[n].op = "remove" /\ calls[n].ok}}

\* the snapshot entry's base name is the mapped name of no not-done item
NameAbsent(og_item) ==
  extract_base_name(og_item.value) \notin grocy_product_names(grocy_items)

\* the index in the snapshot of the entry with this id
SnapshotPos(id) == CHOOSE i \in 1..Len(og_items) : og_items[i].id = id

(***************************************************************************)
(* process_deletions on its own (SpecDel)                                  *)
(***************************************************************************)
\* C6: with deletion enabled, dry-run off and preserve-manual on, a remove
\* is issued only for ids the ledger held for the list; once the step has
\* returned, an entry that is not crossed off and whose base name is absent
\* from the source had a remove issued exactly if it was tracked.
C6_PreserveManual ==
  (Live /\ PreserveOn) =>
    /\ RemoveIds \subseteq ledger0[og_list_id]
    /\ pc = "return" =>
         \A i \in 1..Len(og_items) :
           (~og_items[i].crossedOff /\ NameAbsent(og_items[i])) =>
             (og_items[i].id \in RemoveIds <=> og_items[i].id \in ledger0[og_list_id])

\* C6 witness: the step has returned having kept an untracked entry absent
\* from the source and removed a tracked one
C6_Witness ==
  /\ Live /\ PreserveOn /\ pc = "return"
  /\ \E i, j \in 1..Len(og_items) :
       /\ ~og_items[i].crossedOff /\ NameAbsent(og_items[i])
       /\ og_items[i].id \notin ledger0[og_list_id]
       /\ og_items[i].id \in MirrorIds /\ og_items[i].id \notin RemoveIds
       /\ ~og_items[j].crossedOff /\ NameAbsent(og_items[j])
       /\ og_items[j].id \in ledger0[og_list_id]
       /\ og_items[j].id \in RemovedIds /\ og_items[j].id \notin MirrorIds

\* C7: with the respect-crossed-off guard on, no remove is issued for a
\* crossed-off entry of the snapshot, and every such entry is still in the
\* mirror, tracked or not, name present in the source or not.
C7_RespectCrossedOff ==
  RespectOn =>
    \A i \in 1..Len(og_items) :
      og_items[i].crossedOff =>
        (og_items[i].id \notin RemoveIds /\ og_items[i].id \in MirrorIds)

\* C7 witness: a live step has returned, a crossed-off tracked entry absent
\* from the source is still there and another entry was removed
C7_Witness ==
  /\ Live /\ RespectOn /\ pc = "return"
  /\ RemovedIds # {}
  /\ \E i \in 1..Len(og_items) :
       /\ og_items[i].crossedOff /\ NameAbsent(og_items[i])
       /\ og_items[i].id \in ledger0[og_list_id]
       /\ og_items[i].id \in MirrorIds

\* C8: with deletion disabled (the default) or dry-run on (the default), the
\* deletion step issues no call, leaves the ledger as it was and the mirror
\* as the snapshot shows it.
C8_DisabledOrDryRun ==
  (~DeletionOn \/ DryRunOn) =>
    (calls = << >> /\ tracking = ledger0 /\ mirror = og_items)

\* C8 witness: a dry run, with dry_run left to its default, has gone through
\* a non-empty items_to_remove and returned
C8_Witness ==
  /\ DeletionOn /\ config.dry_run = "absent"
  /\ pc = "return"
  /\ items_to_remove # << >>
  /\ ridx = Len(items_to_remove) + 1

\* C9: in live mode the calls issued so far are the removes of the first
\* ridx - 1 marked entries, in order; the marked entries stand in snapshot
\* order; the ledger has lost exactly the ids whose remove succeeded; and
\* when the step returns every marked entry has been attempted.
C9_LiveRemovals ==
  (Live /\ pc \in {"removing", "return"}) =>
    /\ Len(calls) = ridx - 1
    /\ \A k \in 1..Len(calls) :
         calls[k].op = "remove" /\ calls[k].id = items_to_remove[k].id
    /\ \A a, b \in 1..Len(items_to_remove) :
         a < b => SnapshotPos(items_to_remove[a].id) < SnapshotPos(items_to_remove[b].id)
    /\ tracking[og_list_id] = ledger0[og_list_id] \ RemovedIds
    /\ pc = "return" => Len(calls) = Len(items_to_remove)

\* C9 witness: the first remove failed and its id is still tracked, the
\* second was attempted all the same, succeeded and its id is tracked no more
C9_Witness ==
  /\ Live /\ pc = "return"
  /\ Len(calls) = 2
  /\ ~calls[1].ok /\ calls[2].ok
  /\ calls[1].id \in tracking[og_list_id]
  /\ calls[2].id \in ledger0[og_list_id] \ tracking[og_list_id]

(***************************************************************************)
(* Whole passes (Spec, and SpecPass for a single one)                      *)
(***************************************************************************)
\* a pass has returned and nothing was edited since
PassOver == pc = "idle" /\ passes >= 1 /\ ~changed

\* the mapped, lower-cased name of a source item
SourceName(grocy_item) == Lower(map_item_name(get_product_name(grocy_item)))

\* the loop over grocy_items stands at an item that matches a snapshot
\* entry whose quantity has changed
UpdateDue ==
  /\ pc = "process"
  /\ idx <= Len(grocy_items)
  /\ grocy_items[idx].done # 1
  /\ ~process_raises(grocy_items[idx])
  /\ LET m == find_matching_item(get_product_name(grocy_items[idx]), og_items)
     IN /\ m # 0
        /\ has_quantity_changed(extract_existing_quantity(og_items[m]),
                                format_quantity(grocy_items[idx]).quantity_str)

\* the snapshot entry the item the loop stands at matches
Matched == og_items[find_matching_item(get_product_name(grocy_items[idx]), og_items)]

\* C1 as stated: with the preserve-manual guard on, no step of the engine,
\* the update-replace step included, issues a mirror remove for an id the
\* ledger does not hold for the list.
C1_NeverRemovesUntracked ==
  [][PreserveOn =>
       \A k \in (Len(calls) + 1)..Len(calls') :
         calls'[k].op = "remove" =>
           is_tracked_item(tracking, og_list_id, calls'[k].id)]_vars

\* C1 amended: with the preserve-manual guard on, no step of the deletion
\* policy issues a mirror remove for an id the ledger does not hold for the
\* list (the update-replace step consults no ledger).
C1_DeletionNeverRemovesUntracked ==
  [][(PreserveOn /\ pc = "removing") =>
       \A k \in (Len(calls) + 1)..Len(calls') :
         calls'[k].op = "remove" =>
           is_tracked_item(tracking, og_list_id, calls'[k].id)]_vars

\* C1 witness: in one pass with the guard on, the update-replace step removed
\* an untracked entry and the live deletion policy then kept an untracked
\* entry absent from the source
C1_Witness ==
  /\ Live /\ PreserveOn /\ pc = "return"
  /\ \E k \in 1..Len(calls) :
       /\ calls[k].op = "remove" /\ calls[k].src # 0 /\ calls[k].ok
       /\ calls[k].id \notin ledger0[og_list_id]
  /\ \E i \in 1..Len(og_items) :
       /\ ~og_items[i].crossedOff /\ NameAbsent(og_items[i])
       /\ og_items[i].id \notin ledger0[og_list_id]
       /\ og_items[i].id \in MirrorIds

\* C2 as stated: a pass that follows a pass in which every remote call
\* succeeded, with no edit in between, and whose own calls all succeed,
\* issues no add, no remove and leaves the ledger as it found it.
C2_SecondPassIdle ==
  (PassOver /\ passes >= 2 /\ prev_ok /\ result = "ok" /\ faults_left = MaxFaults) =>
    (calls = << >> /\ tracking = ledger0)

\* C3 as stated, with "equals" read as the engine's own quantity comparison
\* (case and spaces apart): after a pass of an unchanged source in which
\* every remote call succeeded, every not-done source item has a mirror
\* entry of its mapped name and its formatted quantity.
C3_Converged ==
  (PassOver /\ result = "ok" /\ faults_left = MaxFaults) =>
    \A i \in NotDone(source) :
      \E j \in 1..Len(mirror) :
        /\ extract_base_name(mirror[j].value) = SourceName(source[i])
        /\ ~has_quantity_changed(extract_existing_quantity(mirror[j]),
                                 format_quantity(source[i]).quantity_str)

\* C4 as stated: after a pass in live deletion mode whose remote calls all
\* succeeded, the mirror holds no tracked entry that is not crossed off and
\* whose base name is the mapped name of no not-done source item, and no id
\* the deletion policy removed is still tracked; the empty source included.
C4_StaleEntriesRemoved ==
  (Live /\ PassOver /\ result = "ok" /\ pass_ok) =>
    /\ \A j \in 1..Len(mirror) :
         ~ /\ is_tracked_item(tracking, og_list_id, mirror[j].id)
           /\ ~mirror[j].crossedOff
           /\ extract_base_name(mirror[j].value) \notin grocy_product_names(source)
    /\ \A k \in 1..Len(calls) :
         (calls[k].op = "remove" /\ calls[k].src = 0 /\ calls[k].ok) =>
           ~is_tracked_item(tracking, og_list_id, calls[k].id)

\* C5 as stated: a pass that entered the loop over the source items and met
\* an item whose processing raises has gone through every item of the list
\* by the time it returns (the deletion step is what follows the loop).
C5_ItemErrorDoesNotAbort ==
  (pc = "idle" /\ passes >= 1 /\ idx >= 1
     /\ \E i \in NotDone(grocy_items) : process_raises(grocy_items[i])) =>
    idx = Len(grocy_items) + 1

\* C10: when the item the loop stands at matches an entry whose quantity
\* has changed, the step issues the remove of that entry first and then
\* either nothing more, the remove having failed and the mirror staying as
\* it was, or, the remove having succeeded, the add of the replacement.
C10_RemoveThenAdd ==
  [][UpdateDue =>
       LET n == Len(calls)
           value == ItemValue(map_item_name(get_product_name(grocy_items[idx])),
                              format_quantity(grocy_items[idx]).quantity_str)
       IN \/ /\ Len(calls') = n + 1
             /\ calls'[n + 1] = RemoveCall(idx, Matched.id, FALSE)
             /\ mirror' = mirror
          \/ /\ Len(calls') = n + 2
             /\ calls'[n + 1] = RemoveCall(idx, Matched.id, TRUE)
             /\ calls'[n + 2].op = "add"
             /\ calls'[n + 2].src = idx
             /\ calls'[n + 2].value = value]_vars

\* C10 witness: the remove of a matched entry failed, the entry is still in
\* the mirror and no add was issued for that source item
C10_Witness ==
  \E k \in 1..Len(calls) :
    /\ calls[k].op = "remove" /\ calls[k].src # 0 /\ ~calls[k].ok
    /\ calls[k].id \in MirrorIds
    /\ \A n \in 1..Len(calls) : ~(calls[n].op = "add" /\ calls[n].src = calls[k].src)

\* the loop over grocy_items stands at an item that matches a snapshot
\* entry whose quantity is unchanged under the quantity-change rule
UpdateNotDue ==
  /\ pc = "process"
  /\ idx <= Len(grocy_items)
  /\ grocy_items[idx].done # 1
  /\ ~process_raises(grocy_items[idx])
  /\ LET m == find_matching_item(get_product_name(grocy_items[idx]), og_items)
     IN /\ m # 0
        /\ ~has_quantity_changed(extract_existing_quantity(og_items[m]),
                                 format_quantity(grocy_items[idx]).quantity_str)

\* C11: when the item the loop stands at matches an entry whose quantity is
\* unchanged under the quantity-change rule, the step issues no add and no
\* remove and leaves the ledger and the mirror as they were.
C11_UnchangedIsNoOp ==
  [][UpdateNotDue => (calls' = calls /\ tracking' = tracking /\ mirror' = mirror)]_vars

\* C11 witness: the loop has gone past an item that matches the legacy entry
\* "water (1 bottle)" with the new quantity "1 Bottle", and no call was
\* issued for it
C11_Witness ==
  /\ pc \in {"process", "deletions"}
  /\ \E i \in 1..(idx - 1) :
       /\ grocy_items[i].done # 1
       /\ LET m == find_matching_item(get_product_name(grocy_items[i]), og_items)
          IN /\ m # 0
             /\ extract_existing_quantity(og_items[m]) # format_quantity(grocy_items[i]).quantity_str
             /\ ~has_quantity_changed(extract_existing_quantity(og_items[m]),
                                      format_quantity(grocy_items[i]).quantity_str)
       /\ \A k \in 1..Len(calls) : calls[k].src # i

\* C12: a step in which the ledger of some list gains an id ends with a
\* successful mirror add, and the list is the pass's own; a step of the item
\* loop that issues no call, or whose last call failed (an add or a remove),
\* leaves the ledger as it was.
C12_LedgerGainsAfterAdd ==
  [][/\ \A l \in ListIds :
          tracking'[l] \ tracking[l] # {} =>
            /\ l = og_list_id
            /\ Len(calls') > Len(calls)
            /\ calls'[Len(calls')].op = "add"
            /\ calls'[Len(calls')].ok
     /\ (pc = "process"
           /\ (Len(calls') = Len(calls) \/ ~calls'[Len(calls')].ok)) =>
          tracking' = tracking]_vars

\* C12 witness: one add of the pass succeeded and its id is new in the
\* ledger, another failed, and the ledger gained nothing else
C12_Witness ==
  /\ \E k, n \in 1..Len(calls) :
       /\ calls[k].op = "add" /\ calls[k].ok
       /\ calls[k].id \in tracking[og_list_id] \ ledger0[og_list_id]
       /\ calls[n].op = "add" /\ ~calls[n].ok
  /\ Cardinality(tracking[og_list_id] \ ledger0[og_list_id]) = 1

(***************************************************************************)
(* sync_all_lists (SpecAll)                                                *)
(***************************************************************************)
\* C13 as stated: every id the ledger holds for a list is the id of an entry
\* the engine added to that very list, at the start or since.
C13_LedgerHoldsOwnEntries ==
  \A l \in ListIds : \A id \in tracking[l] : <<l, id>> \in written

\* C16: the calls of sync_list are made for the configured list pairs in
\* configuration order, one each; when sync_all_lists has returned, it made
\* a call for every pair if the connection test passed, whatever the earlier
\* calls returned, and none otherwise (no mirror call either), and it
\* returned success exactly when the connection test passed and every call
\* returned success.
C16_EveryPairOnce ==
  /\ Len(returned) <= Len(list_mappings)
  /\ \A i \in 1..Len(returned) :
       /\ returned[i].grocy_list_id = list_mappings[i].grocy_list_id
       /\ returned[i].ourgroceries_list_name = list_mappings[i].ourgroceries_list_name
  /\ pc = "all_done" =>
       /\ Len(returned) = IF connected THEN Len(list_mappings) ELSE 0
       /\ all_success = (connected /\ \A i \in 1..Len(returned) : returned[i].result = "ok")
       /\ ~connected => (passes = 0 /\ calls = << >> /\ grocy_items = << >>)

\* C16 witness: the first pair's pass failed, the second pair's pass ran all
\* the same and succeeded, issuing a mirror call, and sync_all_lists
\* returned failure
C16_Witness ==
  /\ pc = "all_done" /\ connected /\ ~all_success
  /\ Len(returned) = Len(list_mappings)
  /\ returned[1].result = "failed"
  /\ returned[Len(returned)].result = "ok"
  /\ calls # << >>

(***************************************************************************)
(* Creation (SpecPass)                                                     *)
(***************************************************************************)
\* the loop over grocy_items stands at an item that is not done and matches
\* no entry of the snapshot
CreateDue ==
  /\ pc = "process"
  /\ idx <= Len(grocy_items)
  /\ grocy_items[idx].done # 1
  /\ ~process_raises(grocy_items[idx])
  /\ find_matching_item(get_product_name(grocy_items[idx]), og_items) = 0

\* "Water : 3 Bottles"
WaterThreeBottles ==
  <<"W","a","t","e","r"," ",":"," ","3"," ","B","o","t","t","l","e","s">>

SomeCallFailed(c) == \E k \in 1..Len(c) : ~c[k].ok

\* C15: a step of the item loop whose last mirror call returned failure
\* moves the loop to the next source item, or to the deletion step after
\* the last one, and does not end the pass; and a pass in which a call
\* failed ends either by returning success after the deletion step has
\* run, or on an exception raised by an item or by the deletion step, never
\* on the failed call.
C15_CallFailureIsLocal ==
  [][/\ (pc = "process" /\ Len(calls') > Len(calls) /\ ~calls'[Len(calls')].ok) =>
          /\ idx' = idx + 1
          /\ pc' = IF idx' <= Len(grocy_items) THEN "process" ELSE "deletions"
          /\ passes' = passes
          /\ result' = result
     /\ (passes' > passes /\ SomeCallFailed(calls')) =>
          \/ pc = "return" /\ result' = "ok"
          \/ /\ result' = "failed"
             /\ \/ pc = "process" /\ process_raises(grocy_items[idx])
                \/ pc = "deletions" /\ deletions_raise(grocy_items)]_vars

\* C15 witness: the pass returned success although the call for a source
\* item before the last one had failed; the items after it were processed
\* and the deletion step ran
C15_Witness ==
  /\ pc = "idle" /\ passes = MaxPasses /\ result = "ok"
  /\ idx = Len(grocy_items) + 1
  /\ \E k \in 1..Len(calls) :
       /\ ~calls[k].ok /\ calls[k].src # 0 /\ calls[k].src < Len(grocy_items)
       /\ \E n \in (k + 1)..Len(calls) : calls[n].src > calls[k].src /\ calls[n].ok
  /\ Live

(***************************************************************************)
(* Fetch failures and the empty source list (SpecPass)                     *)
(***************************************************************************)
\* the step is a fetch of sync_list that failed: the Grocy items, the lookup
\* of the OurGroceries list by name, or the OurGroceries items
FetchFailed ==
  /\ pc \in {"idle", "find_list"}
  /\ pc' \in {"idle", "find_list", "process"}
  /\ faults_left' < faults_left

\* C17 as stated: a failed fetch step ends the pass at once with failure,
\* no mirror call having been issued and the ledger being as the pass found
\* it.
C17_FetchFailureFails ==
  [][FetchFailed =>
       /\ passes' = passes + 1
       /\ pc' = "idle"
       /\ result' = "failed"
       /\ calls' = << >>
       /\ tracking' = tracking]_vars

\* the step is the start of a pass over a Grocy list that has no items
EmptySourceStart ==
  /\ pc = "idle"
  /\ pc' # "all_done"
  /\ source' = source
  /\ get_shopping_list_items(grocy_list_id) = << >>

\* C18: a pass over an empty Grocy list returns success at once: it never
\* looks the OurGroceries list up nor fetches its items, issues no add and
\* no remove, and leaves the ledger and the mirror as they were.
C18_EmptySourceIsDone ==
  [][EmptySourceStart =>
       /\ passes' = passes + 1
       /\ pc' = "idle"
       /\ result' = "ok"
       /\ og_items' = << >>
       /\ calls' = << >>
       /\ tracking' = tracking
       /\ mirror' = mirror]_vars

\* C18 witness: the pass over an empty Grocy list has returned success, the
\* fetch having succeeded, with live deletion on and tracked entries in the
\* mirror, none of which was touched
C18_Witness ==
  /\ pc = "idle" /\ passes = MaxPasses /\ result = "ok"
  /\ source = << >> /\ grocy_items = << >>
  /\ faults_left = MaxFaults
  /\ Live
  /\ mirror # << >> /\ tracking[og_list_id] = MirrorIds
  /\ og_items = << >> /\ calls = << >> /\ tracking = ledger0

(***************************************************************************)
(* One snapshot, one deletion step (SpecPass)                              *)
(***************************************************************************)
\* C19: once fetched, the snapshot and the Grocy items stay as they are to
\* the end of the pass; each call the item loop issues for an item follows
\* from the item's match in that snapshot (an add when there is none, the
\* remove of the matched entry otherwise); the deletion step starts only
\* when the loop has gone past the last item, computes its removals from
\* the snapshot and all the Grocy items, and is never entered again in the
\* pass.
C19_OneSnapshotOneDeletion ==
  [][/\ pc \in {"process", "deletions", "removing", "return"} =>
          (og_items' = og_items /\ grocy_items' = grocy_items)
     /\ (pc = "process" /\ Len(calls') > Len(calls)) =>
          LET m == find_matching_item(get_product_name(grocy_items[idx]), og_items)
              first == calls'[Len(calls) + 1]
          IN /\ first.src = idx
             /\ IF m = 0 THEN first.op = "add"
                ELSE first.op = "remove" /\ first.id = og_items[m].id
     /\ (pc' = "deletions" /\ pc # "deletions") =>
          (pc = "process" /\ idx = Len(grocy_items) /\ idx' = idx + 1)
     /\ pc = "deletions" =>
          /\ idx = Len(grocy_items) + 1
          /\ pc' \in {"removing", "return", "idle"}
          /\ pc' = "removing" =>
               items_to_remove' = compute_removals(tracking, og_list_id, grocy_items, og_items)
     /\ pc \in {"removing", "return"} => pc' \in {"removing", "return", "idle"}]_vars

\* C19 witness: two Grocy items of the same name, neither matching the
\* snapshot, were both added (the second was decided against the snapshot,
\* not against the list holding the first), and the deletion step then
\* removed an entry of the snapshot
C19_Witness ==
  /\ pc = "return"
  /\ \E k, n \in 1..Len(calls) :
       /\ k < n
       /\ calls[k].op = "add" /\ calls[n].op = "add"
       /\ calls[k].src # calls[n].src
       /\ SourceName(grocy_items[calls[k].src]) = SourceName(grocy_items[calls[n].src])
  /\ \E k \in 1..Len(calls) :
       /\ calls[k].op = "remove" /\ calls[k].src = 0 /\ calls[k].ok
       /\ \E j \in 1..Len(og_items) : og_items[j].id = calls[k].id

(***************************************************************************)
(* The tracking file (SpecTracker)                                         *)
(***************************************************************************)
\* C20: track_item(L, i) writes the file exactly when i was not tracked for
\* L, and then i is tracked for L and nothing else has changed;
\* remove_tracking(L, i) writes exactly when i was tracked for L, and then i
\* is no longer tracked for L and nothing else has changed; a call that
\* does not write leaves the in-memory sets and the file as they were; a
\* call that writes leaves the file equal to the in-memory sets.
C20_WritesOnChangeOnly ==
  [][pc = "tracker" =>
       LET c == calls'[1]
           L == c.value
           i == c.id
           was == i \in tracking[L]
           writes == IF c.op = "track" THEN ~was ELSE was
       IN /\ c.op \in {"track", "untrack"}
          /\ saves' = IF writes THEN saves + 1 ELSE saves
          /\ ~writes => (tracking' = tracking /\ tracking_file' = tracking_file)
          /\ writes =>
               /\ tracking_file' = tracking'
               /\ tracking'[L] = IF c.op = "track" THEN tracking[L] \cup {i}
                                 ELSE tracking[L] \ {i}
               /\ \A l \in ListIds \ {L} : tracking'[l] = tracking[l]]_vars

\* C20 witness: the file has been written once, by a track of a new id; the
\* latest call untracked that id from another list, where it was not
\* tracked, and wrote nothing
C20_Witness ==
  /\ pc = "tracker" /\ saves = 1
  /\ calls # << >> /\ calls[1].op = "untrack"
  /\ calls[1].id \notin ledger0[calls[1].value]
  /\ \E l \in ListIds \ {calls[1].value} :
       /\ calls[1].id \in tracking[l] \ ledger0[l]
       /\ tracking = [ledger0 EXCEPT ![l] = @ \cup {calls[1].id}]
  /\ tracking_file = tracking

(***************************************************************************)
(* ItemMatcher (SpecMatcher)                                               *)
(***************************************************************************)
\* the value of the entry the matcher was applied to
V == og_items[idx].value

\* C22 as stated: for a value that holds the configured separator,
\* extract_base_name returns the lower-cased text before the separator's
\* first occurrence, and extract_existing_quantity the text after it,
\* whatever separator is configured.
C22_SplitAtSeparator ==
  /\ (pc = "extract_base_name" /\ Contains(V, quantity_separator)) =>
       result = Lower(BeforeFirst(V, quantity_separator))
  /\ (pc = "extract_existing_quantity" /\ V # Missing /\ Contains(V, quantity_separator)) =>
       result = AfterFirst(V, quantity_separator)

\* the value is in the legacy form: no separator, and a parenthesis
Legacy(v) == v # Missing /\ ~Contains(v, quantity_separator) /\ Contains(v, <<"(">>)

\* the value has neither the separator nor a parenthesis
Bare(v) == v # Missing /\ ~Contains(v, quantity_separator) /\ ~Contains(v, <<"(">>)

\* C23: for a value "name (qty)" without the separator, with or without a
\* counter "(digits)" after it, extract_base_name returns the lower-cased
\* name and extract_existing_quantity the text between the first pair of
\* parentheses; for a value with neither separator nor parenthesis they
\* return the lower-cased value and None.
C23_LegacyForm ==
  /\ (pc = "extract_base_name" /\ Legacy(V)) =>
       result = Lower(Strip(BeforeFirst(V, <<"(">>)))
  /\ (pc = "extract_existing_quantity" /\ Legacy(V)) =>
       result = SubSeq(V, Find(V, <<"(">>) + 1, Find(V, <<")">>) - 1)
  /\ (pc = "extract_base_name" /\ Bare(V)) => result = Lower(V)
  /\ (pc = "extract_existing_quantity" /\ Bare(V)) => result = None

\* C23 witness: the quantity of "Water (3 BOTTLES) (2)" was extracted and is
\* "3 BOTTLES"
C23_Witness ==
  /\ pc = "extract_existing_quantity"
  /\ Legacy(V)
  /\ EndsWith(V, <<" ", "(", "2", ")">>)
  /\ result = <<"3", " ", "B", "O", "T", "T", "L", "E", "S">>

\* the two quantities has_quantity_changed was applied to
ExistingQuantity == extract_existing_quantity(og_items[idx])

NewQuantity == format_quantity(grocy_items[1]).quantity_str

\* a quantity, a missing one counting as the empty string
QuantityText(q) == IF Truthy(q) THEN q ELSE << >>

\* lower-cased, with all whitespace removed
FoldedNoWhitespace(q) == SelectSeq(Lower(QuantityText(q)), LAMBDA c : ~IsSpace(c))

\* lower-cased, with the space characters removed
FoldedNoSpaces(q) == SelectSeq(Lower(QuantityText(q)), LAMBDA c : c # " ")

\* C24 as stated: has_quantity_changed is false exactly when the two
\* quantities are equal after lower-casing and removing whitespace.
C24_EqualModuloWhitespace ==
  pc = "has_quantity_changed" =>
    (result = FALSE <=> FoldedNoWhitespace(ExistingQuantity) = FoldedNoWhitespace(NewQuantity))

\* C24 amended: has_quantity_changed is false exactly when the two
\* quantities are equal after lower-casing and removing the space
\* characters, a missing quantity counting as the empty string; any other
\* whitespace counts as a difference.
C24_EqualModuloSpaces ==
  pc = "has_quantity_changed" =>
    (result = FALSE <=> FoldedNoSpaces(ExistingQuantity) = FoldedNoSpaces(NewQuantity))

\* C24 witness: "3 BOTTLES" and "3bottles" were compared and found
\* unchanged
C24_Witness ==
  /\ pc = "has_quantity_changed"
  /\ ExistingQuantity = <<"3", " ", "B", "O", "T", "T", "L", "E", "S">>
  /\ NewQuantity = <<"3", "b", "o", "t", "t", "l", "e", "s">>
  /\ result = FALSE

\* the name find_matching_item looks for: the mapping of the Grocy name when
\* there is one, the name itself otherwise, lower-cased
WantedName ==
  LET name == get_product_name(grocy_items[1])
  IN Lower(IF \E m \in name_mappings : m[1] = name
           THEN (CHOOSE m \in name_mappings : m[1] = name)[2]
           ELSE name)

\* the entry i of the snapshot has an id and a value, and its base name is
\* the wanted name
IsMatch(i) ==
  /\ og_items[i].id # 0
  /\ og_items[i].value # Missing
  /\ extract_base_name(og_items[i].value) = WantedName

\* C25: find_matching_item returns the first entry of the snapshot, in its
\* order, that has an id and a value and whose base name is the lower-cased
\* mapped Grocy name, and None when there is no such entry.
C25_FirstMatchWins ==
  pc = "find_matching_item" =>
    /\ result \in 0..Len(og_items)
    /\ result = 0 => \A i \in 1..Len(og_items) : ~IsMatch(i)
    /\ result # 0 => (IsMatch(result) /\ \A i \in 1..(result - 1) : ~IsMatch(i))

\* C25 witness: the snapshot holds two entries for the wanted name, the
\* first of them without an id, and the second was returned
C25_Witness ==
  /\ pc = "find_matching_item"
  /\ Len(og_items) = 2
  /\ result = 2
  /\ og_items[1].id = 0
  /\ extract_base_name(og_items[1].value) = WantedName

(***************************************************************************)
(* QuantityFormatter (SpecFormat)                                          *)
(***************************************************************************)
\* the line format_quantity, _find_conversion_factor or _get_unit_name was
\* applied to
Line == grocy_items[1]

\* the conversions of the line's product
Convs == Line.product_details.quantity_unit_conversions

\* the entries of the product that lead from unit a to unit b
Entries(a, b) ==
  {i \in 1..Len(Convs) : Convs[i].from_qu_id = a /\ Convs[i].to_qu_id = b}

\* the factor of entry i is a number other than zero (a factor left out
\* counts as 1)
Usable(i) ==
  \/ Convs[i].factor.k = "missing"
  \/ Convs[i].factor.k = "num" /\ Convs[i].factor.n # 0

\* the name of unit 1, for an amount
BottleName(q) ==
  IF q.h = 100 THEN <<"B","o","t","t","l","e">> ELSE <<"B","o","t","t","l","e","s">>

\* the line is listed in the purchase unit of its product, which is stocked
\* in another unit, its amount is a number, and every conversion between
\* the two units has a number other than zero as its factor
ListedInPurchaseUnit ==
  /\ Line.has_product
  /\ Line.qu_id = Line.product_details.qu_id_purchase
  /\ Line.product_details.qu_id_purchase # Line.product_details.qu_id_stock
  /\ IsNumber(Line.amount)
  /\ \A i \in Entries(2, 1) \cup Entries(1, 2) : Usable(i)

C27_PurchaseUnitUnchanged ==
  (pc = "format_quantity" /\ Line.has_product /\ IsNumber(Line.amount)
     /\ Line.qu_id = Line.product_details.qu_id_purchase
     /\ \A i \in Entries(2, 1) \cup Entries(1, 2) : Usable(i)) =>
    /\ ~result.exc
    /\ result.quantity = Line.amount
    /\ result.quantity_str = QtyStr(Line.amount) \o <<" ">> \o BottleName(Line.amount)

\* the factor of entry i is a number (a factor left out counts as 1)
Numeric(i) == Convs[i].factor.k \in {"num", "missing"}

\* C28: a lookup from unit A to unit B returns the factor of an entry from A
\* to B when there is one, whatever precedes it in the list; otherwise the
\* reciprocal of the factor of an entry from B to A; otherwise nothing
\* (the factors being numbers, and those of the entries from B to A not
\* zero).
C28_DirectThenInverse ==
  (/\ pc = "find_conversion_factor"
   /\ \A i \in Entries(idx, ridx) : Numeric(i)
   /\ \A i \in Entries(ridx, idx) : Usable(i)) =>
    /\ ~result.exc
    /\ Entries(idx, ridx) # {} =>
         /\ result.found
         /\ \E i \in Entries(idx, ridx) :
              result.n * FactorDen(Convs[i].factor)
                = result.d * FactorNum(Convs[i].factor)
    /\ (Entries(idx, ridx) = {} /\ Entries(ridx, idx) # {}) =>
         /\ result.found
         /\ \E i \in Entries(ridx, idx) :
              result.n * FactorNum(Convs[i].factor)
                = result.d * FactorDen(Convs[i].factor)
    /\ (Entries(idx, ridx) = {} /\ Entries(ridx, idx) = {}) => ~result.found

\* C28 witness: the list holds the entry from unit 2 to unit 1 before the
\* entry from unit 1 to unit 2, both with factor 2, and the lookup from unit
\* 1 to unit 2 returned 2, not 1/2
C28_Witness ==
  /\ pc = "find_conversion_factor"
  /\ idx = 1
  /\ ridx = 2
  /\ Convs = <<Conversion(2, 1, Factor("num", 2, 1)), Conversion(1, 2, Factor("num", 2, 1))>>
  /\ result.found
  /\ result.n = 2 * result.d

\* C29: format_quantity never raises, and for an amount that is no number it
\* returns the amount as it is.
C29_NeverRaises ==
  pc = "format_quantity" =>
    /\ ~result.exc
    /\ ~IsNumber(Line.amount) => result.quantity = Line.amount

\* the unit _get_unit_name was applied to
Unit == get_quantity_unit(Line.qu_id)

\* the unit has a plural name: the field is there and is neither null nor
\* empty
PluralSupplied == Unit.name_plural # Missing /\ Truthy(Unit.name_plural)

\* the singular name with a trailing "s", a name that ends with "s" already
\* being left as it is
WithTrailingS ==
  IF EndsWith(Unit.name, <<"s">>) THEN Unit.name ELSE Unit.name \o <<"s">>

\* C30: _get_unit_name returns "unit <id>" for a unit without a name;
\* otherwise the singular name when the quantity is 1 or is no number;
\* otherwise the plural name when one is supplied; otherwise, also when the
\* plural field is there but empty or null, the singular name with a
\* trailing "s".
C30_UnitDisplayName ==
  pc = "get_unit_name" =>
    /\ ~result.exc
    /\ result.s =
         IF Unit.name = Missing /\ ~PluralSupplied
         THEN <<"u","n","i","t"," ">> \o NatStr(Unit.id)
         ELSE IF ~IsNumber(Line.amount) \/ Line.amount.h = 100 THEN Unit.name
         ELSE IF PluralSupplied THEN Unit.name_plural
         ELSE WithTrailingS

(***************************************************************************)
(* SyncTracker over any tracking file (SpecLoad)                           *)
(***************************************************************************)
\* the tracker was opened over a file that is missing, cannot be read, or
\* does not hold a ledger
BadStorage == ledger0 \in {NoFile, Unreadable, NotJson, NoLists}

\* C21: a tracker opened over missing, unreadable or corrupt storage holds
\* an empty ledger until something is tracked, is_tracked_item returns
\* False until then, and no call of track_item, remove_tracking or
\* is_tracked_item raises.
C21_BadStorageIsEmptyLedger ==
  BadStorage =>
    /\ HasLists
    /\ saves = 0 => tracking = [l \in ListIds |-> {}]
    /\ calls # << >> => calls[1].ok
    /\ (calls # << >> /\ calls[1].op = "is_tracked" /\ saves = 0) => result = FALSE

(***************************************************************************)
(* There and back (SpecRoundTrip)                                          *)
(***************************************************************************)
\* the distance of two amounts, in hundredths
Distance(a, b) == IF a.h >= b.h THEN a.h - b.h ELSE b.h - a.h

\* C31: a quantity converted with a factor and converted back with the
\* inverse factor, each step rounding to two decimals and collapsing to the
\* integer within 0.05, is within 0.05 of the original quantity.
C31_RoundTrip ==
  pc = "back" =>
    /\ ~result.exc
    /\ Distance(result.quantity, grocy_items[1].amount) <= 5

(***************************************************************************)
(* Category resolution (SpecCategory)                                      *)
(***************************************************************************)
\* the name get_or_create_category was called with
RequestedCategory == calls[1].value

\* what the i-th listing of the call holds for the requested name
InListing(i) == find_category_in_categories(client.listed[i], RequestedCategory)

\* what the configured table holds for the requested name
InTable == find_category_in_category_mappings(client.category_ids, RequestedCategory)

\* the configured default category id, None when there is none
DefaultCategory ==
  IF client.default_category_id # << >> THEN client.default_category_id ELSE None

\* C32: get_or_create_category returns the first available of: the id of
\* the listed category with the requested name, case folded; the id the
\* configured table holds for the name; the id the listing holds after the
\* category was created; the configured default id; None.  So a call whose
\* second listing lacks the category returns the default when there is one.
C32_ResolutionOrder ==
  pc = "get_or_create_category" =>
    result = IF InListing(1) # None THEN InListing(1)
             ELSE IF InTable # None THEN InTable
             ELSE IF Len(client.listed) = 2 /\ InListing(2) # None THEN InListing(2)
             ELSE DefaultCategory

(***************************************************************************)
(* An update that loses its entry, and the pass after it (SpecRepair)      *)
(***************************************************************************)
\* the successful adds of the current pass made for a Grocy item
AddsFor(item) ==
  {k \in 1..Len(calls) :
     /\ calls[k].op = "add" /\ calls[k].ok
     /\ grocy_items[calls[k].src] = item}

\* C33: when an update removed the old entry and failed to add the
\* replacement, the pass adds no entry for that item; and when the next pass
\* adds one, the mirror holds, at the end of that pass, an entry with the
\* mapped name and the item's current quantity, and its id is tracked.
C33_VanishedItemComesBack ==
  (pc = "idle" /\ passes >= 1) =>
    \A v \in vanished :
      /\ v.pass = passes - 1 => AddsFor(v.item) = {}
      /\ v.pass = passes - 2 =>
           \A k \in AddsFor(v.item) :
             /\ calls[k].value = ItemValue(map_item_name(get_product_name(v.item)),
                                           format_quantity(v.item).quantity_str)
             /\ \E i \in 1..Len(mirror) :
                  mirror[i].id = calls[k].id /\ mirror[i].value = calls[k].value
             /\ calls[k].id \in tracking[og_list_id]

(***************************************************************************)
(* The caches of the two clients (SpecCache)                               *)
(***************************************************************************)
\* the call the latest step of the clients made
LastCall == calls[1]

\* the freshness window of a cached read: the configured one for the list
\* items; none is configured for a product, and any window within the life
\* of the process is taken
Window(op) == IF op = "get_list_items" THEN list_items_expiry ELSE MaxTime

\* C34: a read is served from the cache only within the freshness window
\* of the value, and a read that reaches the service returns what the
\* service holds, so that a change on the service is seen by a later read.
C34_FreshWithinWindow ==
  (pc = "client" /\ calls # << >>) =>
    /\ (LastCall.op = "get_list_items" /\ LastCall.cached) =>
         LastCall.age < Window("get_list_items")
    /\ (LastCall.op = "get_list_items" /\ ~LastCall.cached /\ LastCall.ok) =>
         result = ServiceItems(LastCall.key)
    /\ (LastCall.op = "get_product" /\ LastCall.cached) =>
         LastCall.age < Window("get_product")
    /\ (LastCall.op = "get_product" /\ ~LastCall.cached /\ LastCall.ok) =>
         result = client.service_products[1]

\* the part of C34 on the items of the mirror lists
ListItemsFreshWithinWindow ==
  (pc = "client" /\ calls # << >>) =>
    /\ (LastCall.op = "get_list_items" /\ LastCall.cached) =>
         LastCall.age < Window("get_list_items")
    /\ (LastCall.op = "get_list_items" /\ ~LastCall.cached /\ LastCall.ok) =>
         result = ServiceItems(LastCall.key)

\* the latest call wrote to a mirror list and succeeded
Wrote(call) == call.op \in {"add_item_to_list", "remove_item_from_list"} /\ call.ok

\* the cached items of the lists other than list_id
OtherLists(cl, list_id) ==
  [l \in DOMAIN cl.list_items \ {list_id} |->
     <<cl.list_items[l], cl.list_items_time[l]>>]

\* a step of the clients that writes to a list with success
WriteStep ==
  /\ calls' # calls
  /\ Wrote(calls'[1])

\* a step of the clients that reads the items of the list the call before
\* it wrote to
ReadAfterWriteStep ==
  /\ calls # << >>
  /\ Wrote(LastCall)
  /\ calls'[1].op = "get_list_items"
  /\ calls'[1].key = LastCall.key

\* C35: a successful add or remove on a list drops the cached items of that
\* list and leaves the cached items of the other lists in place, and the
\* read of the list's items that follows it is not served from the cache:
\* when the service answers it returns the items the service holds.
C35_WriteInvalidatesList ==
  [][ /\ WriteStep =>
           /\ calls'[1].key \notin DOMAIN client'.list_items
           /\ OtherLists(client', calls'[1].key) = OtherLists(client, calls'[1].key)
      /\ ReadAfterWriteStep =>
           /\ ~calls'[1].cached
           /\ calls'[1].ok => result' = ServiceItems(LastCall.key)' ]_vars

\* an add on L1 succeeded while the items of L1 and of L2 were cached, and
\* the items of L2 are still cached
C35_Witness ==
  /\ pc = "client" /\ calls # << >>
  /\ LastCall.op = "add_item_to_list" /\ LastCall.ok /\ LastCall.cached
  /\ LastCall.key = "L1"
  /\ "L1" \notin DOMAIN client.list_items
  /\ "L2" \in DOMAIN client.list_items

(***************************************************************************)
(* The retried call (FairSpecRetry)                                        *)
(***************************************************************************)
\* the events of the call that are authentication checks, and requests
Ensures == {k \in 1..Len(calls) : calls[k].op = "ensure"}
Runs == {k \in 1..Len(calls) : calls[k].op = "run"}

\* the call is over
RetryDone == pc \in {"returned", "raised"}

\* what holds of the events of a call at every point of it
RetrySafety ==
  /\ Cardinality(Ensures) <= client.max_retries + 1
  /\ \A k \in Ensures : \A j \in Ensures : calls[k].attempt = calls[j].attempt => k = j
  /\ \A k \in Runs :
       /\ k > 1
       /\ calls[k - 1].op = "ensure" /\ calls[k - 1].ok
       /\ calls[k - 1].attempt = calls[k].attempt
  /\ \A k \in Ensures : calls[k].attempt > 0 => calls[k].login
  /\ \A k \in 1..Len(calls) : (calls[k].op = "run" /\ calls[k].ok) => k = Len(calls)
  /\ pc = "returned" =>
       /\ calls # << >>
       /\ calls[Len(calls)].op = "run" /\ calls[Len(calls)].ok
       /\ result = RetryValue
  /\ pc = "raised" =>
       /\ result = "OurGroceriesApiError"
       /\ Cardinality(Ensures) = client.max_retries + 1
       /\ \A k \in Ensures :
            \/ ~calls[k].ok
            \/ k + 1 \in Runs /\ ~calls[k + 1].ok

\* C36: a retried call makes at most max_retries + 1 attempts, each one
\* checking the authentication before its request, and every attempt after
\* a failure logging in again; it returns the result of the first request
\* that succeeds, raises OurGroceriesApiError once max_retries + 1 attempts
\* have failed, and always comes to one of the two.
C36_BoundedRetry == []RetrySafety /\ <>RetryDone

\* a call that returned on its third attempt, after a request that failed
\* and a login that failed
C36_Witness ==
  /\ pc = "returned"
  /\ client.attempt = 2
  /\ \E k \in Runs : ~calls[k].ok
  /\ \E k \in Ensures : ~calls[k].ok
  /\ \E k \in Ensures : calls[k].attempt = 0 /\ ~calls[k].login

(***************************************************************************)
(* The ledger in storage and the ledger in memory (SpecStorage)            *)
(***************************************************************************)
\* C37: once a call of track_item or remove_tracking has returned, the
\* tracking file loads to the ledger held in memory, so that a tracker
\* started over the file holds the sets is_tracked_item answered from.
C37_StorageEqualsMemory ==
  (pc = "tracker" /\ calls # << >> /\ calls[1].op \in {"track", "untrack"} /\ calls[1].ok) =>
    _load_tracking_data(tracking_file) = tracking

(***************************************************************************)
(* The matcher and the deletion step on one snapshot (SpecPass)            *)
(***************************************************************************)
\* the indices in og_items of the entries find_matching_item selects for a
\* Grocy item of the pass that is not done
MatchedEntries ==
  {find_matching_item(get_product_name(grocy_items[i]), og_items) :
     i \in {j \in NotDone(grocy_items) :
              ~find_matching_item_raises(get_product_name(grocy_items[j]))}} \ {0}

\* the removals of the pass made by an update, and by the deletion step
UpdateRemoves == {k \in 1..Len(calls) : calls[k].op = "remove" /\ calls[k].src > 0}
DeletionRemoves == {k \in 1..Len(calls) : calls[k].op = "remove" /\ calls[k].src = 0}

\* C38: an entry of the snapshot that find_matching_item selects for a
\* Grocy item that is not done is never marked for removal by the deletion
\* step of the same pass, and so the deletion step never removes an entry
\* that an update of the pass removed.
C38_MatchedNeverMarked ==
  /\ \A m \in MatchedEntries :
       /\ ~deletions_raise(grocy_items) =>
            ~marked_for_removal(tracking, og_list_id, grocy_items, og_items[m])
       /\ \A r \in 1..Len(items_to_remove) : items_to_remove[r].id # og_items[m].id
  /\ \A u \in UpdateRemoves : \A d \in DeletionRemoves : calls[u].id # calls[d].id

\* a pass in which an update removed the entry it matched and the deletion
\* step removed another entry
C38_Witness ==
  /\ pc = "return"
  /\ \E u \in UpdateRemoves : calls[u].ok
  /\ \E d \in DeletionRemoves : calls[d].ok
  /\ MatchedEntries # {}
  /\ items_to_remove # << >>

(***************************************************************************)
(* The removals and the adds of one pass (SpecSameName)                    *)
(***************************************************************************)
\* the calls of the pass that remove an entry, and the calls made on behalf
\* of the Grocy item at index i
Removes == {k \in 1..Len(calls) : calls[k].op = "remove"}
RemovesFor(i) == {k \in Removes : calls[k].src = i}
AddsOnBehalf(i) == {k \in 1..Len(calls) : calls[k].op = "add" /\ calls[k].src = i}

\* C39: within one pass remove is issued at most once for an entry id, and
\* at most one remove and at most one add are made for one Grocy item.
C39_OneRemovePerEntry ==
  /\ \A j \in Removes : \A k \in Removes : calls[j].id = calls[k].id => j = k
  /\ \A i \in 1..Len(grocy_items) :
       /\ Cardinality(RemovesFor(i)) <= 1
       /\ Cardinality(AddsOnBehalf(i)) <= 1

(***************************************************************************)
(* Written, then read (SpecWriteRead)                                      *)
(***************************************************************************)
\* the mapped name and the quantity string the entry was written from
WrittenName == map_item_name(get_product_name(grocy_items[1]))
WrittenQuantity == format_quantity(grocy_items[1]).quantity_str

\* C40: of an entry written for a mapped name N and a quantity string Q,
\* extract_base_name returns N lower-cased and extract_existing_quantity
\* returns Q (None for an empty Q), so that find_matching_item finds the
\* entry for the line it was written for and the deletion step counts it
\* as present in Grocy.
C40_WriteReadRoundTrip ==
  /\ pc = "extract_base_name" =>
       /\ result = Lower(WrittenName)
       /\ result \in grocy_product_names(grocy_items)
  /\ pc = "extract_existing_quantity" =>
       result = IF WrittenQuantity = << >> THEN None ELSE WrittenQuantity
  /\ pc = "find_matching_item" => result = 1

\* C40 with the default separator only
DefaultSeparatorRoundTrip ==
  quantity_separator = <<" ", ":", " ">> => C40_WriteReadRoundTrip

\* C40 for names without a parenthesis and separators without a capital
PlainRoundTrip ==
  (/\ ~Contains(WrittenName, <<"(">>)
   /\ quantity_separator = Lower(quantity_separator)) => C40_WriteReadRoundTrip

====
